---- MODULE Spec2Model ----
(***************************************************************************)
(* A model of overturemaps-js: the GERS manifest search (src/src/gers.ts), *)
(* the bounding-box pipeline (src/src/bbox.ts, first variant: DuckDB-WASM  *)
(* with parquet-wasm fallback) and the DuckDB-WASM availability probe      *)
(* (src/src/duckdb.ts).                                                    *)
(*                                                                         *)
(* JavaScript values are modelled as follows: a string that the code       *)
(* compares or inspects character by character is a sequence of one-letter *)
(* strings; an opaque string (a file name, a path) is a TLA+ string; null  *)
(* and undefined are the string Null; an optional number is the empty      *)
(* sequence (undefined) or a one-element sequence.                         *)
(***************************************************************************)
EXTENDS Integers, Sequences, FiniteSets, TLC

VARIABLES
    \* ---- binarySearchManifest applied to drawn inputs
    sManifest,      \* the manifest: a sequence of <<filename, maxId>>
    sKey,           \* the (lowercase) key searched for
    sResult,        \* <<>> before the call, <<r>> after it (r a filename or Null)
    \* ---- bboxIntersects applied to drawn inputs
    boxA, boxB,     \* the two rectangles
    resAB, resBA,   \* <<>> before the call, <<bboxIntersects(..)>> after it
    \* ---- the remote data (read-only)
    stacRows,       \* rows of the release's collections.parquet index
    files,          \* files[k]: the rows of data file FileName[k]
    \* ---- stac.ts module state
    cachedCatalog,  \* <<>> (null) or <<catalog>>
    \* ---- duckdb.ts module state (first part of the file)
    duckdb,             \* 0 (null) or the number of the probe that created it
    duckdbConnection,   \* 0 (null) or the number of the probe that created it
    duckdbAvailable,    \* <<>> (null), <<TRUE>> or <<FALSE>>
    initPromise,        \* 0 (null) or the number of the probe whose promise it is
    probes,             \* the activations of initializeDuckDB, in start order
    callers,            \* callers[c]: one caller of isDuckDBAvailable
    closePc,            \* where closeDuckDB is suspended ("idle" when not running)
    \* ---- one activation of readByBbox and its consumer
    qType, qBbox, qLimit,   \* arguments; qLimit is <<>> (undefined) or <<n>>
    rPc,            \* where the generator is suspended
    pulling,        \* the consumer has a next() outstanding
    release,        \* <<>> or <<release>>
    filePaths,      \* result of getFilesFromStac
    useDuckDB,      \* <<>> or <<boolean>>
    count,          \* features yielded and counted so far
    fileIdx,        \* 1-based position in filePaths of the file being read
    remainingLimit, \* <<>> (undefined) or <<n>>, for the file being read
    rows,           \* rows of the current batch (stream) or query result (DuckDB)
    rowPos,         \* 1-based position in rows of the next row to convert
    streamLeft,     \* rows the current file's stream has not delivered yet
    openHandles,    \* ParquetFile handles opened and not yet freed
    yielded,        \* features delivered to the consumer, in order
    rError,         \* <<>> or <<message>>: the error the generator threw
    log,            \* network calls and yields of readByBbox, in order
    \* ---- the remote data of the GERS lookup (read-only)
    gRemoteCatalog, \* the catalog the server returns
    gRegRows,       \* rows of the registry file the manifest points to
    gFeatRows,      \* rows of the feature file the registry points to
    \* ---- gers.ts module state
    wasmInitialized,
    \* ---- one call of queryGersRegistry or getFeatureByGersId
    gFn,            \* the function called
    gId,            \* the gersId argument
    gOpt,           \* <<>> or <<options.registryResult>>
    gPc,            \* where the call is suspended
    gReg,           \* <<>> or <<registryResult>> in use by getFeatureByGersId
    gLeft,          \* rows the feature file's stream has not delivered yet
    gOpenHandles,   \* ParquetFile handles opened and not yet freed
    gResult,        \* what the call resolved to: <<>> (null) or <<value>>
    gError,         \* <<>> or <<message>>: what the call rejected with
    gNet,           \* network calls of the call, in order
    \* ---- callers of stac.ts
    stacCalls,      \* stacCalls[i]: one call of getStacCatalog, getLatestRelease
                    \* or getAvailableReleases
    \* ---- duckdb.ts module state (second part of the file)
    db,             \* 0 (null) or the number of the database
    conn,           \* 0 (null) or the number of the connection
    dbInitPromise,  \* initPromise of that part: 0 (null) or the number of the
                    \* activation of doInitDuckDB whose promise it is
    inits,          \* the activations of doInitDuckDB, in start order
    dbCallers,      \* dbCallers[c]: one caller of getDb
    dbClose         \* the activation of closeDb

searchVars == <<sManifest, sKey, sResult>>
geomVars == <<boxA, boxB, resAB, resBA>>
dataVars == <<stacRows, files, gRemoteCatalog, gRegRows, gFeatRows>>
duckVars == <<duckdb, duckdbConnection, duckdbAvailable, initPromise, probes, callers,
              closePc>>
argVars == <<qType, qBbox, qLimit>>
loopVars == <<rPc, pulling, count, fileIdx, remainingLimit, rows, rowPos, streamLeft,
              openHandles, yielded, rError, log>>
queryVars == <<argVars, release, filePaths, useDuckDB, loopVars>>
bboxVars == <<queryVars, cachedCatalog>>
gersVars == <<wasmInitialized, gFn, gId, gOpt, gPc, gReg, gLeft, gOpenHandles, gResult,
              gError, gNet>>
stacVars == <<stacCalls>>
dbVars == <<db, conn, dbInitPromise, inits, dbCallers, dbClose>>
nonDbVars == <<searchVars, geomVars, dataVars, duckVars, bboxVars, gersVars, stacVars>>
vars == <<nonDbVars, dbVars>>

Null == "null"

\* ------------------------------------------------------------------------
\* Bounds of the model
\* ------------------------------------------------------------------------
MaxManifest == 3    \* longest manifest drawn
MaxKeyLen == 2      \* longest key drawn
MaxCoord == 2       \* rectangles for bboxIntersects have corners in 0..MaxCoord
MaxFiles == 2       \* most index rows / data files
MaxRows == 3        \* most data rows, over all files
MaxLimit == 2       \* largest limit option drawn
MaxCallers == 3     \* concurrent callers of isDuckDBAvailable
BatchRows == 2      \* rows per record batch (stands for batchSize: 1024)
MaxStacCalls == 2   \* concurrent callers of stac.ts
MaxDbCallers == 2   \* concurrent callers of getDb
MaxCloses == 2      \* calls of closeDb

\* ------------------------------------------------------------------------
\* JavaScript strings
\* ------------------------------------------------------------------------

\* UTF-16 code unit of the characters the model uses.
Code(c) ==
    CASE c = "-" -> 45
      [] c = "0" -> 48
      [] c = "3" -> 51
      [] c = "5" -> 53
      [] c = "6" -> 54
      [] c = "9" -> 57
      [] c = "A" -> 65
      [] c = "F" -> 70
      [] c = "G" -> 71
      [] c = "a" -> 97
      [] c = "f" -> 102
      [] c = "g" -> 103

\* a < b on JavaScript strings: lexicographic by code unit, a proper prefix
\* is smaller.
StrLt(a, b) ==
    \E i \in 1..(Len(a) + 1) :
        /\ i <= Len(b)
        /\ \A j \in 1..(i - 1) : a[j] = b[j]
        /\ \/ i = Len(a) + 1
           \/ Code(a[i]) < Code(b[i])

\* The comparison with "<" written for "<=".
StrLeStrict(a, b) == StrLt(a, b)

\* a <= b on JavaScript strings.
StrLe(a, b) == a = b \/ StrLt(a, b)

\* ------------------------------------------------------------------------
\* binarySearchManifest
\* ------------------------------------------------------------------------

\* Math.floor((left + right) / 2) for left, right >= 0.
Mid(left, right) == (left + right) \div 2

\* The while loop of binarySearchManifest, with 0-based left/right/mid as in
\* the code (manifest[mid] of the code is manifest[mid + 1] here).
RECURSIVE BsLoop(_, _, _, _)
BsLoop(manifest, gersId, left, right) ==
    IF ~(left <= right)
    THEN Null
    ELSE LET mid == Mid(left, right)
             filename == manifest[mid + 1][1]
             maxId == manifest[mid + 1][2]
         IN  IF StrLe(gersId, maxId)
             THEN IF mid = 0 \/ StrLt(manifest[mid][2], gersId)
                  THEN filename
                  ELSE BsLoop(manifest, gersId, left, mid - 1)
             ELSE BsLoop(manifest, gersId, mid + 1, right)

binarySearchManifest(manifest, gersId) ==
    BsLoop(manifest, gersId, 0, Len(manifest) - 1)

\* ------------------------------------------------------------------------
\* bboxIntersects
\* ------------------------------------------------------------------------
Box(x1, y1, x2, y2) == [xmin |-> x1, ymin |-> y1, xmax |-> x2, ymax |-> y2]

\* The test with one side written "<=" for "<".
bboxIntersectsLoose(a, b) ==
    a.xmin <= b.xmax /\ a.xmax > b.xmin /\ a.ymin < b.ymax /\ a.ymax > b.ymin

bboxIntersects(a, b) ==
    a.xmin < b.xmax /\ a.xmax > b.xmin /\ a.ymin < b.ymax /\ a.ymax > b.ymin

\* ------------------------------------------------------------------------
\* Strings built from opaque pieces (URLs, paths): sequences of tokens
\* ------------------------------------------------------------------------
HttpsPrefix == "https://overturemaps-us-west-2.s3.us-west-2.amazonaws.com/"
S3Prefix == "s3://overturemaps-us-west-2/"

\* s.replace(tok, ''): the first occurrence of tok is removed.
StrReplace(s, tok) ==
    LET at == {i \in 1..Len(s) : s[i] = tok}
    IN  IF at = {}
        THEN s
        ELSE LET i == CHOOSE i \in at : \A j \in at : i <= j
             IN  SubSeq(s, 1, i - 1) \o SubSeq(s, i + 1, Len(s))

\* The first n elements of s (all of s when it is shorter).
Take(s, n) == SubSeq(s, 1, IF n < Len(s) THEN n ELSE Len(s))

\* ------------------------------------------------------------------------
\* getFilesFromStac
\* ------------------------------------------------------------------------

\* row.assets?.['aws-https'] || row.assets?.['aws-s3']
PreferredAsset(row) ==
    IF row.assets.https # <<>> THEN row.assets.https ELSE row.assets.s3

\* The loop with the collection test left out: rows of every type are kept.
StacRowPathsAnyType(row, overtureType, bbox) ==
    IF row.type # "Feature"
    THEN <<>>
    ELSE IF /\ row.bbox # <<>>
            /\ bboxIntersects(bbox, Box(row.bbox[1].xmin, row.bbox[1].ymin,
                                        row.bbox[1].xmax, row.bbox[1].ymax))
         THEN LET asset == PreferredAsset(row)
              IN  IF asset # <<>> /\ asset[1].href # <<>>
                  THEN << StrReplace(StrReplace(asset[1].href, HttpsPrefix), S3Prefix) >>
                  ELSE <<>>
         ELSE <<>>

\* The loop with the bbox test left out: every Feature row of the type is kept.
StacRowPathsNoBbox(row, overtureType, bbox) ==
    IF row.collection # overtureType \/ row.type # "Feature"
    THEN <<>>
    ELSE LET asset == PreferredAsset(row)
         IN  IF asset # <<>> /\ asset[1].href # <<>>
             THEN << StrReplace(StrReplace(asset[1].href, HttpsPrefix), S3Prefix) >>
             ELSE <<>>

\* The body of the for loop for one row: the paths it pushes (none or one).
StacRowPaths(row, overtureType, bbox) ==
    IF row.collection # overtureType \/ row.type # "Feature"
    THEN <<>>
    ELSE IF /\ row.bbox # <<>>
            /\ bboxIntersects(bbox, Box(row.bbox[1].xmin, row.bbox[1].ymin,
                                        row.bbox[1].xmax, row.bbox[1].ymax))
         THEN LET asset == PreferredAsset(row)
              IN  IF asset # <<>> /\ asset[1].href # <<>>
                  THEN << StrReplace(StrReplace(asset[1].href, HttpsPrefix), S3Prefix) >>
                  ELSE <<>>
         ELSE <<>>

\* The for loop over the index rows, after a successful read of the index.
RECURSIVE StacFilter(_, _, _)
StacFilter(rs, overtureType, bbox) ==
    IF rs = <<>>
    THEN <<>>
    ELSE StacRowPaths(Head(rs), overtureType, bbox)
            \o StacFilter(Tail(rs), overtureType, bbox)

\* ------------------------------------------------------------------------
\* Rows to features
\* ------------------------------------------------------------------------
Point12 == [type |-> "Point", coordinates |-> <<1, 2>>]

\* A decoder that never returns null.
wkbToGeoJSONAlways(wkbBytes) == <<Point12>>

\* wkbToGeoJSON: the parsed geometry, or null (<<>>) when the parser throws.
\* "wkbPoint12" stands for the WKB encoding of the point (1, 2); any other
\* byte string of the model is not valid WKB.
wkbToGeoJSON(wkbBytes) ==
    IF wkbBytes = "wkbPoint12" THEN <<Point12>> ELSE <<>>

\* All columns of the row except geometry and bbox.
RowProperties(row) ==
    [key \in DOMAIN row \ {"geometry", "bbox"} |-> row[key]]

\* duckdbRowToFeature: <<>> (null) or <<feature>>.
duckdbRowToFeature(row) ==
    IF row.geometry = Null
    THEN <<>>
    ELSE LET geometry == wkbToGeoJSON(row.geometry)
         IN  IF geometry = <<>>
             THEN <<>>
             ELSE << [type |-> "Feature",
                      id |-> row.id,
                      geometry |-> geometry[1],
                      properties |-> RowProperties(row),
                      bbox |-> IF row.bbox # <<>>
                               THEN << <<row.bbox[1].xmin, row.bbox[1].ymin,
                                         row.bbox[1].xmax, row.bbox[1].ymax>> >>
                               ELSE <<>>] >>

\* arrowRowToFeature: <<>> (null) or <<feature>>.
arrowRowToFeature(row, queryBbox) ==
    IF row.bbox = <<>>
    THEN <<>>
    ELSE IF ~bboxIntersects(queryBbox, Box(row.bbox[1].xmin, row.bbox[1].ymin,
                                           row.bbox[1].xmax, row.bbox[1].ymax))
    THEN <<>>
    ELSE IF row.geometry = Null
    THEN <<>>
    ELSE LET geometry == wkbToGeoJSON(row.geometry)
         IN  IF geometry = <<>>
             THEN <<>>
             ELSE << [type |-> "Feature",
                      id |-> row.id,
                      geometry |-> geometry[1],
                      properties |-> RowProperties(row),
                      bbox |-> << <<row.bbox[1].xmin, row.bbox[1].ymin,
                                    row.bbox[1].xmax, row.bbox[1].ymax>> >>] >>

\* The row conversion of the backend in use.
RowToFeature(duck, row, queryBbox) ==
    IF duck THEN duckdbRowToFeature(row) ELSE arrowRowToFeature(row, queryBbox)

\* The WHERE clause of queryParquetWithBbox on one row (a NULL bbox makes the
\* predicate NULL, and the row is not selected).
SqlBboxPredicate(row, bbox) ==
    /\ row.bbox # <<>>
    /\ row.bbox[1].xmin <= bbox.xmax
    /\ row.bbox[1].xmax >= bbox.xmin
    /\ row.bbox[1].ymin <= bbox.ymax
    /\ row.bbox[1].ymax >= bbox.ymin

\* The rows the SQL of queryParquetWithBbox selects from a file: the WHERE
\* clause, then LIMIT when options.limit is truthy.
SqlBboxQuery(fileRows, bbox, limit) ==
    LET Selected(row) == SqlBboxPredicate(row, bbox)
        matching == SelectSeq(fileRows, Selected)
    IN  IF limit # <<>> /\ limit[1] # 0
        THEN Take(matching, limit[1])
        ELSE matching

\* A stream that delivers the rows of the file last row first.
StreamRowsReversed(fileRows, limit) ==
    LET rs == IF limit # <<>> THEN Take(fileRows, limit[1]) ELSE fileRows
    IN  [i \in 1..Len(rs) |-> rs[Len(rs) + 1 - i]]

\* The rows parquetFile.stream({limit}) delivers: the first limit rows of the
\* file, all of them when limit is undefined.
StreamRows(fileRows, limit) ==
    IF limit # <<>> THEN Take(fileRows, limit[1]) ELSE fileRows

\* ------------------------------------------------------------------------
\* duckdb.ts: isDuckDBAvailable, initializeDuckDB, closeDuckDB
\* ------------------------------------------------------------------------

\* A fresh activation of initializeDuckDB, suspended at its first await.
\* worker, db and conn tell whether the probe created that resource and it has
\* not been terminated or closed since.
NewProbe ==
    [pc |-> "import", worker |-> FALSE, db |-> FALSE, conn |-> FALSE,
     outcome |-> "pending", result |-> <<>>]

\* isDuckDBAvailable without the initPromise test: every call made before
\* the first probe has finished starts a probe of its own.
isDuckDBAvailableNoMemo(c) ==
    /\ callers[c].st = "idle"
    /\ IF duckdbAvailable # <<>>
       THEN /\ callers' = [callers EXCEPT ![c] =
                              [@ EXCEPT !.st = "waiting", !.on = 0, !.val = duckdbAvailable]]
            /\ UNCHANGED <<initPromise, probes>>
       ELSE /\ probes' = Append(probes, NewProbe)
            /\ initPromise' = Len(probes) + 1
            /\ callers' = [callers EXCEPT ![c] =
                              [@ EXCEPT !.st = "waiting", !.on = Len(probes) + 1]]
    /\ UNCHANGED <<duckdb, duckdbConnection, duckdbAvailable, closePc>>

\* isDuckDBAvailable called by caller c: the caller is left awaiting either
\* the cached value (on = 0) or the promise of probe number on.
isDuckDBAvailable(c) ==
    /\ callers[c].st = "idle"
    /\ IF duckdbAvailable # <<>>
       THEN /\ callers' = [callers EXCEPT ![c] =
                              [@ EXCEPT !.st = "waiting", !.on = 0, !.val = duckdbAvailable]]
            /\ UNCHANGED <<initPromise, probes>>
       ELSE IF initPromise # 0
       THEN /\ callers' = [callers EXCEPT ![c] =
                              [@ EXCEPT !.st = "waiting", !.on = initPromise]]
            /\ UNCHANGED <<initPromise, probes>>
       ELSE /\ probes' = Append(probes, NewProbe)
            /\ initPromise' = Len(probes) + 1
            /\ callers' = [callers EXCEPT ![c] =
                              [@ EXCEPT !.st = "waiting", !.on = Len(probes) + 1]]
    /\ UNCHANGED <<duckdb, duckdbConnection, duckdbAvailable, closePc>>

\* The promise caller c awaits is settled.
Settled(c) ==
    /\ callers[c].st = "waiting"
    /\ callers[c].on # 0 => probes[callers[c].on].outcome # "pending"

\* The promise caller c awaits is rejected.
Rejected(c) ==
    callers[c].on # 0 /\ probes[callers[c].on].outcome = "rejected"

\* The value the settled promise of caller c is fulfilled with.
SettledValue(c) ==
    IF callers[c].on = 0 THEN callers[c].val[1] ELSE probes[callers[c].on].result[1]

\* useDuckDB ? readFeaturesFromFileDuckDB : readFeaturesFromFileStream
BackendFor(useDuck) == IF useDuck THEN "duckdb" ELSE "stream"

\* A caller's await of isDuckDBAvailable() returns (or throws) and the caller
\* picks its backend.
CallerAfterAwait(c) ==
    IF Rejected(c)
    THEN [callers[c] EXCEPT !.st = "rejected"]
    ELSE [callers[c] EXCEPT !.st = "resolved", !.val = <<SettledValue(c)>>,
                            !.backend = BackendFor(SettledValue(c))]

\* A catch block that rethrows: the promise of the probe is rejected.
ProbeRethrow(pr) ==
    [pr EXCEPT !.pc = "done", !.outcome = "rejected"]

\* The catch block of initializeDuckDB: return false.
ProbeCatch(pr) ==
    [pr EXCEPT !.pc = "done", !.outcome = "resolved", !.result = <<FALSE>>]

\* The awaited step of probe p succeeds and the probe runs to its next await
\* (or to its end).
ProbeStep(p) ==
    /\ p \in 1..Len(probes)
    /\ probes[p].pc # "done"
    /\ LET pr == probes[p]
       IN  CASE pr.pc = "import" ->
                    /\ probes' = [probes EXCEPT ![p].pc = "bundle"]
                    /\ UNCHANGED <<duckdb, duckdbConnection, duckdbAvailable>>
             [] pr.pc = "bundle" ->
                    \* new Worker(..), new AsyncDuckDB(..), db.instantiate(..)
                    /\ probes' = [probes EXCEPT ![p] =
                                     [@ EXCEPT !.pc = "instantiate", !.worker = TRUE,
                                               !.db = TRUE]]
                    /\ UNCHANGED <<duckdb, duckdbConnection, duckdbAvailable>>
             [] pr.pc = "instantiate" ->
                    /\ probes' = [probes EXCEPT ![p].pc = "connect"]
                    /\ UNCHANGED <<duckdb, duckdbConnection, duckdbAvailable>>
             [] pr.pc = "connect" ->
                    /\ probes' = [probes EXCEPT ![p] =
                                     [@ EXCEPT !.pc = "install", !.conn = TRUE]]
                    /\ UNCHANGED <<duckdb, duckdbConnection, duckdbAvailable>>
             [] pr.pc = "install" ->
                    /\ probes' = [probes EXCEPT ![p].pc = "load"]
                    /\ UNCHANGED <<duckdb, duckdbConnection, duckdbAvailable>>
             [] pr.pc = "load" ->
                    /\ probes' = [probes EXCEPT ![p] =
                                     [@ EXCEPT !.pc = "done", !.outcome = "resolved",
                                               !.result = <<TRUE>>]]
                    /\ duckdb' = p
                    /\ duckdbConnection' = p
                    /\ duckdbAvailable' = <<TRUE>>
    /\ UNCHANGED <<initPromise, callers, closePc>>

\* The awaited step of probe p fails (or new Worker throws right after
\* selectBundle): the catch block runs.
ProbeError(p) ==
    /\ p \in 1..Len(probes)
    /\ probes[p].pc # "done"
    /\ probes' = [probes EXCEPT ![p] = ProbeCatch(@)]
    /\ duckdbAvailable' = IF probes'[p].outcome = "resolved" THEN <<FALSE>> ELSE duckdbAvailable
    /\ UNCHANGED <<duckdb, duckdbConnection, initPromise, callers, closePc>>

\* closeDuckDB is called: it awaits duckdbConnection.close(), or
\* duckdb.terminate() when there is no connection.
CloseStart ==
    /\ closePc = "idle"
    /\ duckdbConnection # 0 \/ duckdb # 0
    /\ closePc' = IF duckdbConnection # 0 THEN "closingConn" ELSE "closingDb"
    /\ UNCHANGED <<duckdb, duckdbConnection, duckdbAvailable, initPromise, probes, callers>>

\* duckdbConnection.close() resolved.
CloseConnDone ==
    /\ closePc = "closingConn"
    /\ probes' = IF duckdbConnection # 0
                 THEN [probes EXCEPT ![duckdbConnection].conn = FALSE]
                 ELSE probes
    /\ duckdbConnection' = 0
    /\ closePc' = IF duckdb # 0 THEN "closingDb" ELSE "idle"
    /\ UNCHANGED <<duckdb, duckdbAvailable, initPromise, callers>>

\* duckdb.terminate() resolved.
CloseDbDone ==
    /\ closePc = "closingDb"
    /\ probes' = IF duckdb # 0
                 THEN [probes EXCEPT ![duckdb] = [@ EXCEPT !.db = FALSE, !.worker = FALSE]]
                 ELSE probes
    /\ duckdb' = 0
    /\ closePc' = "idle"
    /\ UNCHANGED <<duckdbConnection, duckdbAvailable, initPromise, callers>>

\* close() or terminate() rejected: closeDuckDB rejects where it stands.
CloseFail ==
    /\ closePc # "idle"
    /\ closePc' = "idle"
    /\ UNCHANGED <<duckdb, duckdbConnection, duckdbAvailable, initPromise, probes, callers>>

\* ------------------------------------------------------------------------
\* duckdb.ts (second part of the file): getDb, doInitDuckDB, runQuery, closeDb
\*
\* Workers, databases and connections are numbered by the activation of
\* doInitDuckDB that created them.  In inits[k], worker, db and conn tell
\* whether the worker, database and connection that activation k created
\* exist and have not been terminated or closed, of is the database its
\* connection was opened on, ext counts the set-up statements that have run
\* on its connection, and on is the object the awaited call was issued on.
\* ------------------------------------------------------------------------

\* The statements doInitDuckDB runs on the new connection, in order.
SetupStatements ==
    <<"INSTALL httpfs;", "LOAD httpfs;", "SET s3_region = 'us-west-2';",
      "INSTALL spatial;", "LOAD spatial;">>

\* A fresh activation of doInitDuckDB, suspended at await selectBundle(..).
NewInit ==
    [pc |-> "bundle", made |-> FALSE, worker |-> FALSE, db |-> FALSE, conn |-> FALSE,
     of |-> 0, ext |-> 0, stmt |-> 0, on |-> 0, outcome |-> "pending", value |-> 0]

\* Database d can still answer calls.
DbUsable(d) == d # 0 /\ inits[d].db /\ inits[d].worker

\* Connection k can still answer calls.
ConnUsable(k) == k # 0 /\ inits[k].conn /\ DbUsable(inits[k].of)

\* getDb called by caller c (from runQuery): the caller is left awaiting the
\* connection at hand (on = 0), the promise of the running initialization, or
\* the promise of the initialization it starts.
getDb(c) ==
    /\ dbCallers[c].st = "idle"
    /\ IF conn # 0
       THEN /\ dbCallers' = [dbCallers EXCEPT ![c] =
                                [@ EXCEPT !.st = "waiting", !.on = 0, !.got = conn]]
            /\ UNCHANGED <<dbInitPromise, inits>>
       ELSE IF dbInitPromise # 0
       THEN /\ dbCallers' = [dbCallers EXCEPT ![c] =
                                [@ EXCEPT !.st = "waiting", !.on = dbInitPromise]]
            /\ UNCHANGED <<dbInitPromise, inits>>
       ELSE /\ inits' = Append(inits, NewInit)
            /\ dbInitPromise' = Len(inits) + 1
            /\ dbCallers' = [dbCallers EXCEPT ![c] =
                                [@ EXCEPT !.st = "waiting", !.on = Len(inits) + 1]]
    /\ UNCHANGED <<db, conn, dbClose, nonDbVars>>

\* const connection = await getDb() in runQuery returns or throws.
DbCallerResume(c) ==
    /\ dbCallers[c].st = "waiting"
    /\ dbCallers[c].on # 0 => inits[dbCallers[c].on].outcome # "pending"
    /\ LET cr == dbCallers[c]
       IN  dbCallers' = [dbCallers EXCEPT ![c] =
              IF cr.on # 0 /\ inits[cr.on].outcome = "rejected"
              THEN [cr EXCEPT !.st = "rejected", !.on = 0]
              ELSE [cr EXCEPT !.st = "holding", !.on = 0,
                              !.got = IF cr.on = 0 THEN cr.got
                                                   ELSE inits[cr.on].value]]
    /\ UNCHANGED <<db, conn, dbInitPromise, inits, dbClose, nonDbVars>>

\* throw error at the end of the catch block of doInitDuckDB.
InitThrow(it) ==
    [it EXCEPT !.pc = "done", !.outcome = "rejected", !.made = FALSE, !.stmt = 0,
               !.on = 0]

\* The catch block of doInitDuckDB from if (db) on, in activation k, the
\* activations being is.
InitCatchDb(k, is) ==
    IF db # 0
    THEN /\ inits' = [is EXCEPT ![k] = [@ EXCEPT !.pc = "catchDb", !.on = db]]
         /\ UNCHANGED <<db, dbInitPromise>>
    ELSE /\ inits' = [is EXCEPT ![k] = InitThrow([@ EXCEPT !.worker = FALSE])]
         /\ dbInitPromise' = 0
         /\ UNCHANGED db

\* The catch block of doInitDuckDB from its start.
InitCatch(k, is) ==
    IF conn # 0
    THEN /\ inits' = [is EXCEPT ![k] = [@ EXCEPT !.pc = "catchConn", !.on = conn]]
         /\ UNCHANGED <<db, conn, dbInitPromise>>
    ELSE /\ InitCatchDb(k, is)
         /\ UNCHANGED conn

\* The awaited call of activation k of doInitDuckDB succeeds and the
\* activation runs to its next await, or to its end.  A call on a module
\* variable that is null by then throws, and the catch block runs.
DbInitStep(k) ==
    /\ k \in 1..Len(inits)
    /\ inits[k].pc \in {"bundle", "instantiate", "connect", "query"}
    /\ LET it == inits[k]
       IN  CASE it.pc = "bundle" ->
                    \* new Worker(..), db = new AsyncDuckDB(..), db.instantiate(..)
                    /\ inits' = [inits EXCEPT ![k] =
                                    [@ EXCEPT !.pc = "instantiate", !.made = TRUE,
                                              !.worker = TRUE, !.db = TRUE, !.on = k]]
                    /\ db' = k
                    /\ UNCHANGED <<conn, dbInitPromise>>
             [] it.pc = "instantiate" ->
                    /\ DbUsable(it.on)
                    /\ IF db = 0
                       THEN InitCatch(k, inits)
                       ELSE /\ inits' = [inits EXCEPT ![k] =
                                            [@ EXCEPT !.pc = "connect", !.on = db]]
                            /\ UNCHANGED <<db, conn, dbInitPromise>>
             [] it.pc = "connect" ->
                    /\ DbUsable(it.on)
                    /\ inits' = [inits EXCEPT ![k] =
                                    [@ EXCEPT !.pc = "query", !.stmt = 1, !.conn = TRUE,
                                              !.of = it.on, !.on = k]]
                    /\ conn' = k
                    /\ UNCHANGED <<db, dbInitPromise>>
             [] it.pc = "query" ->
                    /\ ConnUsable(it.on)
                    /\ LET ran == [inits EXCEPT ![it.on].ext =
                                      IF @ = it.stmt - 1 THEN it.stmt ELSE @]
                       IN  IF it.stmt = Len(SetupStatements)
                           THEN /\ inits' = [ran EXCEPT ![k] =
                                                [@ EXCEPT !.pc = "done",
                                                          !.outcome = "resolved",
                                                          !.value = conn,
                                                          !.made = FALSE,
                                                          !.stmt = 0, !.on = 0]]
                                /\ UNCHANGED <<db, conn, dbInitPromise>>
                           ELSE IF conn = 0
                           THEN InitCatch(k, ran)
                           ELSE /\ inits' = [ran EXCEPT ![k] =
                                                [@ EXCEPT !.stmt = it.stmt + 1,
                                                          !.on = conn]]
                                /\ UNCHANGED <<db, conn, dbInitPromise>>
    /\ UNCHANGED <<dbCallers, dbClose, nonDbVars>>

\* The awaited call of activation k fails (or new Worker throws right after
\* selectBundle): the catch block starts.
DbInitError(k) ==
    /\ k \in 1..Len(inits)
    /\ inits[k].pc \in {"bundle", "instantiate", "connect", "query"}
    /\ InitCatch(k, inits)
    /\ UNCHANGED <<dbCallers, dbClose, nonDbVars>>

\* conn.close() or db.terminate() in the catch block of activation k settles
\* (ok: it resolved; its rejection is ignored) and the block goes on.
DbInitCatchStep(k, ok) ==
    /\ k \in 1..Len(inits)
    /\ inits[k].pc \in {"catchConn", "catchDb"}
    /\ LET it == inits[k]
       IN  IF it.pc = "catchConn"
           THEN /\ conn' = 0
                /\ InitCatchDb(k, IF ok THEN [inits EXCEPT ![it.on].conn = FALSE]
                                        ELSE inits)
           ELSE /\ inits' = [(IF ok THEN [inits EXCEPT ![it.on] =
                                            [@ EXCEPT !.db = FALSE, !.worker = FALSE]]
                                    ELSE inits) EXCEPT ![k] = InitThrow(@)]
                /\ db' = 0
                /\ dbInitPromise' = 0
                /\ UNCHANGED conn
    /\ UNCHANGED <<dbCallers, dbClose, nonDbVars>>

\* closeDb is not running and has never run.  While it runs, had and tried
\* record which of conn and db were set when the call began and which
\* cleanup calls it has issued; calls is the number of calls so far, and
\* quiet whether each of them began while no initialization was running.
NoClose ==
    [pc |-> "idle", errors |-> 0, on |-> 0, had |-> {}, tried |-> {}, quiet |-> TRUE,
     result |-> "none", calls |-> 0]

\* closeDb that never throws.
CloseEndSilent(cl) ==
    [NoClose EXCEPT !.result = "ok", !.calls = cl.calls, !.quiet = cl.quiet]

\* The end of closeDb: throw the collected errors, if any.
CloseEnd(cl) ==
    [NoClose EXCEPT !.result = IF cl.errors > 0 THEN "threw" ELSE "ok",
                    !.calls = cl.calls, !.quiet = cl.quiet]

\* closeDb from if (db) on.
CloseDbFrom(cl) ==
    IF db # 0
    THEN /\ dbClose' = [cl EXCEPT !.pc = "closingDb", !.on = db,
                                  !.tried = @ \cup {"db"}]
         /\ UNCHANGED <<db, dbInitPromise>>
    ELSE /\ dbClose' = CloseEnd(cl)
         /\ dbInitPromise' = 0
         /\ UNCHANGED db

\* closeDb is called.
closeDb ==
    /\ dbClose.pc = "idle"
    /\ dbClose.calls < MaxCloses
    /\ LET cl == [dbClose EXCEPT
                     !.errors = 0,
                     !.had = (IF conn # 0 THEN {"conn"} ELSE {}) \cup
                             (IF db # 0 THEN {"db"} ELSE {}),
                     !.tried = {},
                     !.quiet = @ /\ \A k \in 1..Len(inits) :
                                         inits[k].outcome # "pending",
                     !.result = "none",
                     !.calls = @ + 1]
       IN  IF conn # 0
           THEN /\ dbClose' = [cl EXCEPT !.pc = "closingConn", !.on = conn,
                                         !.tried = {"conn"}]
                /\ UNCHANGED <<db, conn, dbInitPromise>>
           ELSE /\ CloseDbFrom(cl)
                /\ UNCHANGED conn
    /\ UNCHANGED <<inits, dbCallers, nonDbVars>>

\* await conn.close() in closeDb settles (ok: it resolved).
CloseDbConnStep(ok) ==
    /\ dbClose.pc = "closingConn"
    /\ inits' = IF ok THEN [inits EXCEPT ![dbClose.on].conn = FALSE] ELSE inits
    /\ conn' = 0
    /\ CloseDbFrom([dbClose EXCEPT !.errors = IF ok THEN @ ELSE @ + 1])
    /\ UNCHANGED <<dbCallers, nonDbVars>>

\* await db.terminate() in closeDb settles (ok: it resolved).
CloseDbTerminateStep(ok) ==
    /\ dbClose.pc = "closingDb"
    /\ inits' = IF ok THEN [inits EXCEPT ![dbClose.on] =
                               [@ EXCEPT !.db = FALSE, !.worker = FALSE]]
                      ELSE inits
    /\ db' = 0
    /\ dbInitPromise' = 0
    /\ dbClose' = CloseEnd([dbClose EXCEPT !.errors = IF ok THEN @ ELSE @ + 1])
    /\ UNCHANGED <<conn, dbCallers, nonDbVars>>

\* The second part of duckdb.ts after module load, and no caller of it.
DbIdle ==
    /\ db = 0
    /\ conn = 0
    /\ dbInitPromise = 0
    /\ inits = <<>>
    /\ dbCallers = [c \in 1..MaxDbCallers |-> [st |-> "idle", on |-> 0, got |-> 0]]
    /\ dbClose = NoClose

\* ------------------------------------------------------------------------
\* bbox.ts: readByBbox and the two per-file generators
\*
\* An action is what the generator does between two suspension points (an
\* await of I/O, or a yield), JavaScript running each such stretch to
\* completion.
\* ------------------------------------------------------------------------
ErrOrder == "Invalid bounding box: xmin must be less than xmax, ymin must be less than ymax"
ErrRange == "Bounding box coordinates out of valid geographic range"
ErrRelease == "Failed to get latest release"
ErrIndex == "Failed to fetch STAC collections index"
ErrNoDuck == "DuckDB not initialized"
ErrRead == "read of data file failed"

FileName == <<"f1.parquet", "f2.parquet", "f3.parquet", "f4.parquet">>

\* The catalog the server returns.
Catalog == gRemoteCatalog

\* The number of the data file a path names, 0 when there is no such file.
FileNo(path) ==
    IF \E k \in 1..Len(files) : path = <<FileName[k]>>
    THEN CHOOSE k \in 1..Len(files) : path = <<FileName[k]>>
    ELSE 0

\* The validation with the geographic range test left out.
ValidateBboxOrderOnly(bbox) ==
    IF bbox.xmin >= bbox.xmax \/ bbox.ymin >= bbox.ymax
    THEN <<ErrOrder>>
    ELSE <<>>

\* The validation left out.
ValidateBboxNone(bbox) == <<>>

\* The validation with only the range tested.
ValidateBboxRangeOnly(bbox) ==
    IF bbox.xmin < -180 \/ bbox.xmax > 180 \/ bbox.ymin < -90 \/ bbox.ymax > 90
    THEN <<ErrRange>>
    ELSE <<>>

\* The two validations at the head of readByBbox: <<>> or the error thrown.
ValidateBbox(bbox) ==
    IF bbox.xmin >= bbox.xmax \/ bbox.ymin >= bbox.ymax
    THEN <<ErrOrder>>
    ELSE IF bbox.xmin < -180 \/ bbox.xmax > 180 \/ bbox.ymin < -90 \/ bbox.ymax > 90
    THEN <<ErrRange>>
    ELSE <<>>

\* The limit test with ">" written for ">=".
LimitReachedLate(limit, cnt) == limit # <<>> /\ cnt > limit[1]

\* limit !== undefined && count >= limit
LimitReached(limit, cnt) == limit # <<>> /\ cnt >= limit[1]

\* limit !== undefined ? limit - count : undefined
RemainingLimit(limit, cnt) == IF limit # <<>> THEN <<limit[1] - cnt>> ELSE <<>>

\* A cleanup that frees nothing.
FreeHandleNot(handles, path) == handles

\* parquetFile.free() in the finally block.
FreeHandle(handles, path) == handles \ {path}

\* The path of the file being read (the empty path outside the loop).
CurrentPath ==
    IF fileIdx \in 1..Len(filePaths) THEN filePaths[fileIdx] ELSE <<>>

\* The throw with the error lost.
FailSilent(msg) ==
    /\ rPc' = "failed"
    /\ rError' = <<>>
    /\ pulling' = FALSE

\* A failure that ends the sequence normally.
FailAsEnd(msg) ==
    /\ rPc' = "done"
    /\ rError' = rError
    /\ pulling' = FALSE

\* The generator throws msg.
Fail(msg) ==
    /\ rPc' = "failed"
    /\ rError' = <<msg>>
    /\ pulling' = FALSE

\* The head of the for-of loop for file number i of paths with cnt features
\* counted: the loop ends, or the file's generator is created and started
\* (the DuckDB query is issued, or the parquet file is opened).
EnterFile(paths, duck, i, cnt) ==
    /\ count' = cnt
    /\ fileIdx' = i
    /\ rows' = <<>>
    /\ rowPos' = 1
    /\ streamLeft' = <<>>
    /\ yielded' = yielded
    /\ IF i > Len(paths)
       THEN /\ rPc' = "done"
            /\ pulling' = FALSE
            /\ UNCHANGED <<remainingLimit, rError, log>>
       ELSE /\ remainingLimit' = RemainingLimit(qLimit, cnt)
            /\ IF duck /\ duckdbConnection = 0
               THEN Fail(ErrNoDuck) /\ log' = log
               ELSE /\ rPc' = IF duck THEN "querying" ELSE "opening"
                    /\ pulling' = TRUE
                    /\ rError' = rError
                    /\ log' = Append(log, <<IF duck THEN "query" ELSE "open">> \o paths[i])

\* The row loop with the next batch requested right after a yield, before
\* the consumer pulls again.
ScanRowsReadAhead(duck, rs, pos, cnt, left) ==
    LET hits == {j \in pos..Len(rs) : RowToFeature(duck, rs[j], qBbox) # <<>>}
    IN  IF hits # {}
        THEN LET j == CHOOSE j \in hits : \A h \in hits : j <= h
             IN  /\ yielded' = Append(yielded, RowToFeature(duck, rs[j], qBbox)[1])
                 /\ log' = Append(Append(log, <<"yield">>), <<"read">> \o CurrentPath)
                 /\ rPc' = "yielded"
                 /\ pulling' = FALSE
                 /\ rows' = rs
                 /\ rowPos' = j + 1
                 /\ count' = cnt
                 /\ streamLeft' = left
                 /\ UNCHANGED <<fileIdx, remainingLimit, rError>>
        ELSE IF duck
        THEN EnterFile(filePaths, duck, fileIdx + 1, cnt)
        ELSE /\ rPc' = "reading"
             /\ pulling' = TRUE
             /\ rows' = <<>>
             /\ rowPos' = 1
             /\ count' = cnt
             /\ streamLeft' = left
             /\ log' = Append(log, <<"read">> \o CurrentPath)
             /\ UNCHANGED <<fileIdx, remainingLimit, yielded, rError>>

\* The for loop over the rows rs from position pos on, with cnt features
\* counted and left the rows the stream still holds: the next row that
\* converts to a feature is yielded; when there is none the DuckDB generator
\* ends and the loop goes to the next file, the stream generator reads its
\* next batch.
ScanRows(duck, rs, pos, cnt, left) ==
    LET hits == {j \in pos..Len(rs) : RowToFeature(duck, rs[j], qBbox) # <<>>}
    IN  IF hits # {}
        THEN LET j == CHOOSE j \in hits : \A h \in hits : j <= h
             IN  /\ yielded' = Append(yielded, RowToFeature(duck, rs[j], qBbox)[1])
                 /\ log' = Append(log, <<"yield">>)
                 /\ rPc' = "yielded"
                 /\ pulling' = FALSE
                 /\ rows' = rs
                 /\ rowPos' = j + 1
                 /\ count' = cnt
                 /\ streamLeft' = left
                 /\ UNCHANGED <<fileIdx, remainingLimit, rError>>
        ELSE IF duck
        THEN EnterFile(filePaths, duck, fileIdx + 1, cnt)
        ELSE /\ rPc' = "reading"
             /\ pulling' = TRUE
             /\ rows' = <<>>
             /\ rowPos' = 1
             /\ count' = cnt
             /\ streamLeft' = left
             /\ log' = Append(log, <<"read">> \o CurrentPath)
             /\ UNCHANGED <<fileIdx, remainingLimit, yielded, rError>>

\* readByBbox(type, bbox, options) is called: the generator object is
\* created, its body has not started.
Call ==
    /\ rPc = "idle"
    /\ rPc' = "created"
    /\ UNCHANGED <<gersVars, dataVars, dbVars, stacVars, duckVars, argVars, release, filePaths, useDuckDB, cachedCatalog,
                   pulling, count, fileIdx, remainingLimit, rows, rowPos, streamLeft,
                   openHandles, yielded, rError, log, searchVars, geomVars>>

\* The consumer's first next(): the body runs from its start, through the
\* validation, to await getLatestRelease() (getStacCatalog fetches the
\* catalog unless it is cached).
FirstPull ==
    /\ rPc = "created"
    /\ LET err == ValidateBbox(qBbox)
       IN  IF err # <<>>
           THEN Fail(err[1]) /\ log' = log
           ELSE /\ rPc' = "resolving"
                /\ pulling' = TRUE
                /\ rError' = rError
                /\ log' = IF cachedCatalog = <<>> THEN Append(log, <<"catalog">>) ELSE log
    /\ UNCHANGED <<gersVars, dataVars, dbVars, stacVars, duckVars, argVars, release, filePaths, useDuckDB, cachedCatalog,
                   count, fileIdx, remainingLimit, rows, rowPos, streamLeft,
                   openHandles, yielded, searchVars, geomVars>>

\* getLatestRelease() resolves; getFilesFromStac starts its read of the index.
ReleaseOk ==
    /\ rPc = "resolving"
    /\ cachedCatalog' = <<Catalog>>
    /\ release' = <<Catalog.latest>>
    /\ rPc' = "indexing"
    /\ log' = Append(log, <<"index">>)
    /\ UNCHANGED <<gersVars, dataVars, dbVars, stacVars, duckVars, argVars, filePaths, useDuckDB,
                   pulling, count, fileIdx, remainingLimit, rows, rowPos, streamLeft,
                   openHandles, yielded, rError, searchVars, geomVars>>

\* The catalog fetch fails (network error, status not OK, invalid structure,
\* timeout).
ReleaseFail ==
    /\ rPc = "resolving"
    /\ \E i \in 1..Len(log) : log[i] = <<"catalog">>
    /\ Fail(ErrRelease)
    /\ UNCHANGED <<gersVars, dataVars, dbVars, stacVars, duckVars, argVars, release, filePaths, useDuckDB, cachedCatalog,
                   count, fileIdx, remainingLimit, rows, rowPos, streamLeft,
                   openHandles, yielded, log, searchVars, geomVars>>

\* The read of the index resolves: getFilesFromStac filters its rows and
\* returns; readByBbox returns when there is no file, and calls
\* isDuckDBAvailable otherwise.
IndexOk ==
    /\ rPc = "indexing"
    /\ LET paths == StacFilter(stacRows, qType, qBbox)
       IN  /\ filePaths' = paths
           /\ IF Len(paths) = 0
              THEN /\ rPc' = "done"
                   /\ pulling' = FALSE
                   /\ UNCHANGED duckVars
              ELSE /\ rPc' = "probing"
                   /\ pulling' = TRUE
                   /\ isDuckDBAvailable(0)
    /\ UNCHANGED <<gersVars, dataVars, dbVars, stacVars, argVars, release, useDuckDB, cachedCatalog,
                   count, fileIdx, remainingLimit, rows, rowPos, streamLeft,
                   openHandles, yielded, rError, log, searchVars, geomVars>>

\* The read of the index fails.
IndexFail ==
    /\ rPc = "indexing"
    /\ Fail(ErrIndex)
    /\ UNCHANGED <<gersVars, dataVars, dbVars, stacVars, duckVars, argVars, release, filePaths, useDuckDB, cachedCatalog,
                   count, fileIdx, remainingLimit, rows, rowPos, streamLeft,
                   openHandles, yielded, log, searchVars, geomVars>>

\* await isDuckDBAvailable() returns: count = 0 and the loop starts.
ProbeResolved ==
    /\ rPc = "probing"
    /\ Settled(0)
    /\ callers' = [callers EXCEPT ![0] = CallerAfterAwait(0)]
    /\ IF Rejected(0)
       THEN /\ Fail("isDuckDBAvailable rejected")
            /\ UNCHANGED <<useDuckDB, count, fileIdx, remainingLimit, rows, rowPos,
                           streamLeft, yielded, log>>
       ELSE /\ useDuckDB' = <<SettledValue(0)>>
            /\ EnterFile(filePaths, SettledValue(0), 1, 0)
    /\ UNCHANGED <<gersVars, dataVars, dbVars, stacVars, duckdb, duckdbConnection, duckdbAvailable, initPromise, probes,
                   closePc, argVars, release, filePaths, cachedCatalog, openHandles,
                   searchVars, geomVars>>

\* getParquetWasm() and ParquetFile.fromUrl resolve: the handle exists and
\* parquetFile.stream is awaited with the remaining limit.
OpenOk ==
    /\ rPc = "opening"
    /\ FileNo(CurrentPath) # 0
    /\ openHandles' = openHandles \cup {CurrentPath}
    /\ rPc' = "streaming"
    /\ UNCHANGED <<gersVars, dataVars, dbVars, stacVars, duckVars, argVars, release, filePaths, useDuckDB, cachedCatalog,
                   pulling, count, fileIdx, remainingLimit, rows, rowPos, streamLeft,
                   yielded, rError, log, searchVars, geomVars>>

\* getParquetWasm() or ParquetFile.fromUrl rejects: no handle exists.
OpenFail ==
    /\ rPc = "opening"
    /\ Fail(ErrRead)
    /\ UNCHANGED <<gersVars, dataVars, dbVars, stacVars, duckVars, argVars, release, filePaths, useDuckDB, cachedCatalog,
                   count, fileIdx, remainingLimit, rows, rowPos, streamLeft,
                   openHandles, yielded, log, searchVars, geomVars>>

\* parquetFile.stream resolves: the first reader.read() is issued.
StreamOk ==
    /\ rPc = "streaming"
    /\ streamLeft' = StreamRows(files[FileNo(CurrentPath)], remainingLimit)
    /\ rPc' = "reading"
    /\ log' = Append(log, <<"read">> \o CurrentPath)
    /\ UNCHANGED <<gersVars, dataVars, dbVars, stacVars, duckVars, argVars, release, filePaths, useDuckDB, cachedCatalog,
                   pulling, count, fileIdx, remainingLimit, rows, rowPos, openHandles,
                   yielded, rError, searchVars, geomVars>>

\* parquetFile.stream rejects: the outer finally frees the handle and the
\* error propagates.
StreamFail ==
    /\ rPc = "streaming"
    /\ openHandles' = FreeHandle(openHandles, CurrentPath)
    /\ Fail(ErrRead)
    /\ UNCHANGED <<gersVars, dataVars, dbVars, stacVars, duckVars, argVars, release, filePaths, useDuckDB, cachedCatalog,
                   count, fileIdx, remainingLimit, rows, rowPos, streamLeft,
                   yielded, log, searchVars, geomVars>>

\* reader.read() resolves with a batch: its rows are converted in order.
ReadBatch ==
    /\ rPc = "reading"
    /\ streamLeft # <<>>
    /\ ScanRows(FALSE, Take(streamLeft, BatchRows), 1, count,
                SubSeq(streamLeft, Len(Take(streamLeft, BatchRows)) + 1, Len(streamLeft)))
    /\ UNCHANGED <<gersVars, dataVars, dbVars, stacVars, duckVars, argVars, release, filePaths, useDuckDB, cachedCatalog,
                   openHandles, searchVars, geomVars>>

\* reader.read() resolves with done: the finally blocks run and the loop
\* goes to the next file.
ReadDone ==
    /\ rPc = "reading"
    /\ streamLeft = <<>>
    /\ openHandles' = FreeHandle(openHandles, CurrentPath)
    /\ EnterFile(filePaths, FALSE, fileIdx + 1, count)
    /\ UNCHANGED <<gersVars, dataVars, dbVars, stacVars, duckVars, argVars, release, filePaths, useDuckDB, cachedCatalog,
                   searchVars, geomVars>>

\* reader.read() rejects: the finally blocks run and the error propagates.
ReadFail ==
    /\ rPc = "reading"
    /\ openHandles' = FreeHandle(openHandles, CurrentPath)
    /\ Fail(ErrRead)
    /\ UNCHANGED <<gersVars, dataVars, dbVars, stacVars, duckVars, argVars, release, filePaths, useDuckDB, cachedCatalog,
                   count, fileIdx, remainingLimit, rows, rowPos, streamLeft,
                   yielded, log, searchVars, geomVars>>

\* queryParquetWithBbox resolves with the selected rows.
QueryOk ==
    /\ rPc = "querying"
    /\ FileNo(CurrentPath) # 0
    /\ ScanRows(TRUE, SqlBboxQuery(files[FileNo(CurrentPath)], qBbox, remainingLimit),
                1, count, <<>>)
    /\ UNCHANGED <<gersVars, dataVars, dbVars, stacVars, duckVars, argVars, release, filePaths, useDuckDB, cachedCatalog,
                   openHandles, searchVars, geomVars>>

\* The DuckDB query rejects.
QueryFail ==
    /\ rPc = "querying"
    /\ Fail(ErrRead)
    /\ UNCHANGED <<gersVars, dataVars, dbVars, stacVars, duckVars, argVars, release, filePaths, useDuckDB, cachedCatalog,
                   count, fileIdx, remainingLimit, rows, rowPos, streamLeft,
                   openHandles, yielded, log, searchVars, geomVars>>

\* The consumer's next() after a yield: count++, then return when the limit
\* is reached (the per-file generator is closed, its finally blocks run), or
\* the conversion of rows goes on.
Resume ==
    /\ rPc = "yielded"
    /\ IF LimitReached(qLimit, count + 1)
       THEN /\ rPc' = "done"
            /\ count' = count + 1
            /\ openHandles' = FreeHandle(openHandles, CurrentPath)
            /\ UNCHANGED <<pulling, fileIdx, remainingLimit, rows, rowPos, streamLeft,
                           yielded, rError, log>>
       ELSE /\ ScanRows(useDuckDB[1], rows, rowPos, count + 1, streamLeft)
            /\ openHandles' = openHandles
    /\ UNCHANGED <<gersVars, dataVars, dbVars, stacVars, duckVars, argVars, release, filePaths, useDuckDB, cachedCatalog,
                   searchVars, geomVars>>

\* The consumer leaves its loop after a yield (return() on the generator):
\* the per-file generator is closed and its finally blocks run.
Break ==
    /\ rPc = "yielded"
    /\ rPc' = "closed"
    /\ openHandles' = FreeHandle(openHandles, CurrentPath)
    /\ UNCHANGED <<gersVars, dataVars, dbVars, stacVars, duckVars, argVars, release, filePaths, useDuckDB, cachedCatalog,
                   pulling, count, fileIdx, remainingLimit, rows, rowPos, streamLeft,
                   yielded, rError, log, searchVars, geomVars>>

\* ------------------------------------------------------------------------
\* gers.ts: isValidGersId, queryGersRegistry, getFeatureByGersId
\* ------------------------------------------------------------------------
S3_BASE_URL == "https://overturemaps-us-west-2.s3.us-west-2.amazonaws.com"

\* [0-9a-f] under the i flag.
HexDigit(c) ==
    c \in {"0", "1", "2", "3", "4", "5", "6", "7", "8", "9",
           "a", "b", "c", "d", "e", "f", "A", "B", "C", "D", "E", "F"}

\* The validation with only the length tested.
isValidGersIdLengthOnly(id) == Len(id) = 36

\* isValidGersId: UUID_REGEX.test(id). The pattern is anchored at both ends:
\* 8, 4, 4, 4 and 12 hexadecimal digits separated by "-". (Every id of the
\* model is a string, so typeof id === 'string' holds.)
isValidGersId(id) ==
    /\ Len(id) = 36
    /\ \A i \in 1..36 :
          IF i \in {9, 14, 19, 24} THEN id[i] = "-" ELSE HexDigit(id[i])

\* String.prototype.toLowerCase on the characters the model uses.
LowerChar(c) ==
    CASE c = "A" -> "a"
      [] c = "B" -> "b"
      [] c = "C" -> "c"
      [] c = "D" -> "d"
      [] c = "E" -> "e"
      [] c = "F" -> "f"
      [] c = "G" -> "g"
      [] OTHER -> c

\* toLowerCase as the identity.
toLowerCaseNot(s) == s

toLowerCase(s) == [i \in 1..Len(s) |-> LowerChar(s[i])]

\* Error messages, as sequences of pieces.
ErrInvalidId(id) == <<"Invalid GERS ID format: ">> \o id \o <<". Expected UUID format.">>
ErrCatalog(cause) == <<"Failed to fetch STAC catalog: ", cause>>
ErrNoRegistry == <<"Registry configuration not found in STAC catalog">>
ErrEmptyManifest == <<"Registry manifest is empty in STAC catalog">>
ErrRegistry(cause) == <<"Failed to query GERS registry: ", cause>>
ErrFeature(cause) == <<"Failed to fetch feature: ", cause>>
ErrNoGeometry == <<"Feature has no valid geometry">>
ErrParseGeometry == <<"Failed to parse geometry">>

\* Causes of a failed catalog fetch and of a failed file read.
CatalogCauses == {"fetch failed", "Invalid STAC catalog structure",
                  "STAC catalog fetch timed out after 30000ms"}
ReadCauses == {"fetch failed", "wasm init failed"}

\* The first row whose lowercased id is gersId: <<>> or <<row>>.
FirstMatch(rs, gersId) ==
    LET at == {i \in 1..Len(rs) : toLowerCase(rs[i].id) = gersId}
    IN  IF at = {}
        THEN <<>>
        ELSE << rs[CHOOSE i \in at : \A j \in at : i <= j] >>

\* queryGersRegistry's tail without the test of a null path.
RegistryResultOfAnyPath(row, rel) ==
    << [filepath |-> <<"overturemaps-us-west-2/release/", rel, "/">>
                        \o (IF row.path = <<>> THEN <<>> ELSE row.path[1]),
        bbox |-> <<>>,
        version |-> row.version,
        firstSeen |-> row.first_seen,
        lastSeen |-> row.last_seen,
        lastChanged |-> row.last_changed] >>

\* queryGersRegistry from "const path = row.path" to its return: <<>> (null)
\* or <<result>>.
RegistryResultOf(row, rel) ==
    IF row.path = <<>>
    THEN <<>>
    ELSE LET path == row.path[1]
             releasePath == <<"overturemaps-us-west-2/release/", rel>>
             fullPath == IF path # <<>> /\ path[1] = "/"
                         THEN releasePath \o path
                         ELSE releasePath \o <<"/">> \o path
             rowBbox == row.bbox
             complete == /\ rowBbox # <<>>
                         /\ rowBbox[1].xmin # <<>>
                         /\ rowBbox[1].ymin # <<>>
                         /\ rowBbox[1].xmax # <<>>
                         /\ rowBbox[1].ymax # <<>>
         IN  << [filepath |-> fullPath,
                 bbox |-> IF complete
                          THEN << Box(rowBbox[1].xmin[1], rowBbox[1].ymin[1],
                                      rowBbox[1].xmax[1], rowBbox[1].ymax[1]) >>
                          ELSE <<>>,
                 version |-> row.version,
                 firstSeen |-> row.first_seen,
                 lastSeen |-> row.last_seen,
                 lastChanged |-> row.last_changed] >>

\* Where a call goes next: its position, error, resolved value, registry
\* result in use, and network log.
Out(pc, err, res, reg, net) ==
    [pc |-> pc, err |-> err, res |-> res, reg |-> reg, net |-> net]

GersReject(msg, net) == Out("rejected", <<msg>>, <<>>, <<>>, net)

\* A call resolves: val is <<>> for null, <<v>> for a value.
GersResolve(val, net) == Out("resolved", <<>>, val, <<>>, net)

\* getFeatureByGersId from "const featureUrl" to the await of
\* ParquetFile.fromUrl in queryFeatureById.
StartFeature(registryResult, net) ==
    Out("fopen", <<>>, <<>>, <<registryResult>>,
        Append(net, <<"open", S3_BASE_URL, "/">> \o registryResult.filepath))

\* queryGersRegistry has returned res (<<>> for null): it is the result of
\* the call, or getFeatureByGersId goes on with it.
AfterRegistry(fn, res, net) ==
    IF fn = "queryGersRegistry"
    THEN GersResolve(res, net)
    ELSE IF res = <<>>
    THEN GersResolve(<<>>, net)
    ELSE StartFeature(res[1], net)

\* queryGersRegistry from "if (!catalog.registry)" to the await of
\* queryRegistryById.
AfterCatalog(fn, catalog, gersIdLower, net) ==
    IF catalog.registry = <<>>
    THEN GersReject(ErrNoRegistry, net)
    ELSE IF Len(catalog.registry[1].manifest) = 0
    THEN GersReject(ErrEmptyManifest, net)
    ELSE LET registryFile == binarySearchManifest(catalog.registry[1].manifest, gersIdLower)
         IN  IF registryFile = Null
             THEN AfterRegistry(fn, <<>>, net)
             ELSE Out("registry", <<>>, <<>>, <<>>,
                      Append(net, <<"registry", S3_BASE_URL, "/registry/", registryFile>>))

\* queryGersRegistry from its start to the await of getStacCatalog (which
\* fetches unless the catalog is cached).
QueryGersRegistryStart(fn, gersId, net) ==
    IF ~isValidGersId(gersId)
    THEN GersReject(ErrInvalidId(gersId), net)
    ELSE IF cachedCatalog # <<>>
    THEN AfterCatalog(fn, cachedCatalog[1], toLowerCase(gersId), net)
    ELSE Out("catalog", <<>>, <<>>, <<>>, Append(net, <<"catalog">>))

\* getFeatureByGersId from its start to its first await of I/O.
GetFeatureByGersIdStart(gersId, options, net) ==
    IF ~isValidGersId(gersId)
    THEN GersReject(ErrInvalidId(gersId), net)
    ELSE IF options # <<>>
    THEN StartFeature(options[1], net)
    ELSE QueryGersRegistryStart("getFeatureByGersId", toLowerCase(gersId), net)

\* The end of getFeatureByGersId with a geometry that is missing or not WKB
\* answered by null.
FeatureOutcomeLenient(row, gersIdLower, registryResult, net) ==
    IF row.geometry = Null \/ wkbToGeoJSON(row.geometry) = <<>>
    THEN GersResolve(<<>>, net)
    ELSE GersResolve(
           << [type |-> "Feature",
               id |-> gersIdLower,
               geometry |-> wkbToGeoJSON(row.geometry)[1],
               properties |-> [key \in DOMAIN row \ {"geometry"} |-> row[key]],
               bbox |-> <<>>] >>, net)

\* getFeatureByGersId from "const properties" to its return, for the row
\* queryFeatureById found.
FeatureOutcome(row, gersIdLower, registryResult, net) ==
    IF row.geometry = Null
    THEN GersReject(ErrNoGeometry, net)
    ELSE LET geometry == wkbToGeoJSON(row.geometry)
         IN  IF geometry = <<>>
             THEN GersReject(ErrParseGeometry, net)
             ELSE GersResolve(
                    << [type |-> "Feature",
                        id |-> gersIdLower,
                        geometry |-> geometry[1],
                        properties |-> [key \in DOMAIN row \ {"geometry"} |-> row[key]],
                        bbox |-> IF registryResult.bbox # <<>>
                                 THEN << <<registryResult.bbox[1].xmin,
                                           registryResult.bbox[1].ymin,
                                           registryResult.bbox[1].xmax,
                                           registryResult.bbox[1].ymax>> >>
                                 ELSE <<>>] >>, net)

Apply(o) ==
    /\ gPc' = o.pc
    /\ gError' = o.err
    /\ gResult' = o.res
    /\ gReg' = o.reg
    /\ gNet' = o.net

\* queryGersRegistry(gId) or getFeatureByGersId(gId, options) is called: the
\* async function runs to its first await of I/O, or to its end.
GersCall ==
    /\ gPc = "idle"
    /\ Apply(IF gFn = "queryGersRegistry"
             THEN QueryGersRegistryStart(gFn, gId, gNet)
             ELSE GetFeatureByGersIdStart(gId, gOpt, gNet))
    /\ UNCHANGED <<gFn, gId, gOpt, gLeft, gOpenHandles, wasmInitialized, cachedCatalog,
                   dataVars, dbVars, stacVars, searchVars, geomVars, duckVars, queryVars>>

\* The catalog fetch resolves: the catalog is cached, getLatestRelease finds
\* it in the cache.
GersCatalogOk ==
    /\ gPc = "catalog"
    /\ cachedCatalog' = <<gRemoteCatalog>>
    /\ Apply(AfterCatalog(gFn, gRemoteCatalog, toLowerCase(gId), gNet))
    /\ UNCHANGED <<gFn, gId, gOpt, gLeft, gOpenHandles, wasmInitialized,
                   dataVars, dbVars, stacVars, searchVars, geomVars, duckVars, queryVars>>

\* The catalog fetch fails.
GersCatalogFail ==
    /\ gPc = "catalog"
    /\ \E cause \in CatalogCauses : Apply(GersReject(ErrCatalog(cause), gNet))
    /\ UNCHANGED <<gFn, gId, gOpt, gLeft, gOpenHandles, wasmInitialized, cachedCatalog,
                   dataVars, dbVars, stacVars, searchVars, geomVars, duckVars, queryVars>>

\* readParquetFromUrl resolves with the rows of the registry file;
\* queryRegistryById looks for the id.
GersRegistryOk ==
    /\ gPc = "registry"
    /\ LET row == FirstMatch(gRegRows, toLowerCase(gId))
           res == IF row = <<>>
                  THEN <<>>
                  ELSE RegistryResultOf(row[1], cachedCatalog[1].latest)
       IN  Apply(AfterRegistry(gFn, res, gNet))
    /\ wasmInitialized' = TRUE
    /\ UNCHANGED <<gFn, gId, gOpt, gLeft, gOpenHandles, cachedCatalog,
                   dataVars, dbVars, stacVars, searchVars, geomVars, duckVars, queryVars>>

\* The read of the registry file fails (WASM initialization, fetch, status
\* not OK, parquet decoding).
GersRegistryFail ==
    /\ gPc = "registry"
    /\ \E cause \in ReadCauses :
          /\ Apply(GersReject(ErrRegistry(cause), gNet))
          /\ wasmInitialized' = (wasmInitialized \/ cause # "wasm init failed")
    /\ UNCHANGED <<gFn, gId, gOpt, gLeft, gOpenHandles, cachedCatalog,
                   dataVars, dbVars, stacVars, searchVars, geomVars, duckVars, queryVars>>

\* ParquetFile.fromUrl resolves; queryFeatureById awaits parquetFile.stream.
GersOpenOk ==
    /\ gPc = "fopen"
    /\ gPc' = "fstream"
    /\ gOpenHandles' = gOpenHandles + 1
    /\ wasmInitialized' = TRUE
    /\ UNCHANGED <<gFn, gId, gOpt, gLeft, gError, gResult, gReg, gNet, cachedCatalog,
                   dataVars, dbVars, stacVars, searchVars, geomVars, duckVars, queryVars>>

\* ensureWasmInitialized or ParquetFile.fromUrl fails: no handle exists.
GersOpenFail ==
    /\ gPc = "fopen"
    /\ \E cause \in ReadCauses :
          /\ Apply(GersReject(ErrFeature(cause), gNet))
          /\ wasmInitialized' = (wasmInitialized \/ cause # "wasm init failed")
    /\ UNCHANGED <<gFn, gId, gOpt, gLeft, gOpenHandles, cachedCatalog,
                   dataVars, dbVars, stacVars, searchVars, geomVars, duckVars, queryVars>>

\* parquetFile.stream resolves; the reader awaits its first batch.
GersStreamOk ==
    /\ gPc = "fstream"
    /\ gPc' = "fread"
    /\ gLeft' = gFeatRows
    /\ gNet' = Append(gNet, <<"read">>)
    /\ UNCHANGED <<gFn, gId, gOpt, gOpenHandles, gError, gResult, gReg, wasmInitialized,
                   cachedCatalog, dataVars, dbVars, stacVars, searchVars, geomVars, duckVars, queryVars>>

\* parquetFile.stream fails: the outer finally frees the handle.
GersStreamFail ==
    /\ gPc = "fstream"
    /\ Apply(GersReject(ErrFeature("fetch failed"), gNet))
    /\ gOpenHandles' = gOpenHandles - 1
    /\ UNCHANGED <<gFn, gId, gOpt, gLeft, wasmInitialized, cachedCatalog,
                   dataVars, dbVars, stacVars, searchVars, geomVars, duckVars, queryVars>>

\* reader.read resolves with a batch: its rows are scanned for the id. When
\* it is found the finally blocks release the reader and free the handle and
\* getFeatureByGersId builds the feature; otherwise the next batch is awaited.
GersReadBatch ==
    /\ gPc = "fread"
    /\ gLeft # <<>>
    /\ LET batch == Take(gLeft, BatchRows)
           row == FirstMatch(batch, toLowerCase(gId))
       IN  IF row # <<>>
           THEN /\ Apply(FeatureOutcome(row[1], toLowerCase(gId), gReg[1], gNet))
                /\ gOpenHandles' = gOpenHandles - 1
                /\ gLeft' = <<>>
           ELSE /\ gLeft' = SubSeq(gLeft, Len(batch) + 1, Len(gLeft))
                /\ gNet' = Append(gNet, <<"read">>)
                /\ UNCHANGED <<gPc, gError, gResult, gReg, gOpenHandles>>
    /\ UNCHANGED <<gFn, gId, gOpt, wasmInitialized, cachedCatalog,
                   dataVars, dbVars, stacVars, searchVars, geomVars, duckVars, queryVars>>

\* reader.read resolves with done: queryFeatureById returns null.
GersReadDone ==
    /\ gPc = "fread"
    /\ gLeft = <<>>
    /\ Apply(GersResolve(<<>>, gNet))
    /\ gOpenHandles' = gOpenHandles - 1
    /\ UNCHANGED <<gFn, gId, gOpt, gLeft, wasmInitialized, cachedCatalog,
                   dataVars, dbVars, stacVars, searchVars, geomVars, duckVars, queryVars>>

\* reader.read rejects: the finally blocks release the reader and free the
\* handle.
GersReadFail ==
    /\ gPc = "fread"
    /\ Apply(GersReject(ErrFeature("fetch failed"), gNet))
    /\ gOpenHandles' = gOpenHandles - 1
    /\ gLeft' = <<>>
    /\ UNCHANGED <<gFn, gId, gOpt, wasmInitialized, cachedCatalog,
                   dataVars, dbVars, stacVars, searchVars, geomVars, duckVars, queryVars>>

\* ------------------------------------------------------------------------
\* stac.ts: getStacCatalog, getLatestRelease, getAvailableReleases,
\* clearCache
\* ------------------------------------------------------------------------
STAC_CATALOG_URL == "https://stac.overturemaps.org/catalog.json"
FETCH_TIMEOUT_MS == 30000

\* A parsed response body: isObject is false for null and for a JSON value
\* that is not an object; latest is <<>> (missing) or <<string>>; links is
\* <<>> (missing or not an array) or <<array>>.
MkBody(isObject, latest, links) ==
    [isObject |-> isObject, latest |-> latest, links |-> links]

\* !data || typeof data !== 'object' || !data.latest || !Array.isArray(data.links),
\* negated.
ValidStructure(data) ==
    /\ data.isObject
    /\ data.latest # <<>>
    /\ data.latest[1] # <<>>
    /\ data.links # <<>>

\* The test at the head of getStacCatalog that never finds the cache.
CacheHitNever(cache, forceRefresh) == FALSE

\* cachedCatalog && !forceRefresh
CacheHit(cache, forceRefresh) == cache # <<>> /\ ~forceRefresh

\* The cache written before the structure is validated.
ParsedCacheEager(data, cache) == <<data>>

\* The cache after the body was parsed: set only past the validation.
ParsedCache(data, cache) == IF ValidStructure(data) THEN <<data>> ELSE cache

\* link.href.match(/\.\/([^/]+)\/catalog\.json/): <<>> or <<version>>. An
\* href is a sequence of pieces; the pattern matches "./", one path segment,
\* "/catalog.json".
HrefVersion(href) ==
    IF Len(href) = 3 /\ href[1] = "./" /\ href[3] = "/catalog.json"
    THEN <<href[2]>>
    ELSE <<>>

\* Array.prototype.sort on strings followed by reverse.
RECURSIVE SortReversed(_)
SortReversed(versions) ==
    IF versions = <<>>
    THEN <<>>
    ELSE LET top == CHOOSE i \in 1..Len(versions) :
                        \A j \in 1..Len(versions) :
                            /\ ~StrLt(versions[i], versions[j])
                            /\ (versions[j] = versions[i] => i >= j)
             rest == [k \in 1..(Len(versions) - 1) |->
                         IF k < top THEN versions[k] ELSE versions[k + 1]]
         IN  <<versions[top]>> \o SortReversed(rest)

\* The releases getAvailableReleases extracts from the child links.
RECURSIVE ChildVersions(_)
ChildVersions(links) ==
    IF links = <<>>
    THEN <<>>
    ELSE (IF links[1].rel = "child" THEN HrefVersion(links[1].href) ELSE <<>>)
            \o ChildVersions(Tail(links))

\* What the function fn returns for the catalog.
StacReturn(fn, catalog) ==
    CASE fn = "getStacCatalog" -> catalog
      [] fn = "getLatestRelease" -> catalog.latest[1]
      [] fn = "getAvailableReleases" ->
            <<SortReversed(ChildVersions(catalog.links[1])), catalog.latest[1]>>

\* A call slot: pc is "idle", "fetching", "parsing", "returned" or "thrown";
\* fetched tells whether the call issued a fetch; res is <<>> or <<value>>;
\* err is <<>> or <<message>>.
StacCallIdle ==
    [pc |-> "idle", fn |-> "none", force |-> FALSE, fetched |-> FALSE,
     res |-> <<>>, err |-> <<>>]

ErrStatus == "Failed to fetch STAC catalog: 500 Internal Server Error"
ErrStructure == "Invalid STAC catalog structure"
ErrTimeout == "STAC catalog fetch timed out after 30000ms"
ErrNetwork == "fetch failed"
ErrJson == "Unexpected token in JSON"

\* What the catch block rethrows for the error's name: the timeout message
\* for an AbortError, the error itself otherwise.
Rethrown(name, message) == IF name = "AbortError" THEN ErrTimeout ELSE message

\* Caller i calls fn (getStacCatalog with forceRefresh, or one of the two
\* functions that call getStacCatalog()): the cached catalog is returned, or
\* the fetch is issued.
StacCall(i, fn, forceRefresh) ==
    /\ stacCalls[i].pc = "idle"
    /\ IF CacheHit(cachedCatalog, forceRefresh)
       THEN stacCalls' = [stacCalls EXCEPT ![i] =
                [pc |-> "returned", fn |-> fn, force |-> forceRefresh, fetched |-> FALSE,
                 res |-> <<StacReturn(fn, cachedCatalog[1])>>, err |-> <<>>]]
       ELSE stacCalls' = [stacCalls EXCEPT ![i] =
                [pc |-> "fetching", fn |-> fn, force |-> forceRefresh, fetched |-> TRUE,
                 res |-> <<>>, err |-> <<>>]]
    /\ UNCHANGED <<cachedCatalog, searchVars, geomVars, dataVars, dbVars, duckVars, queryVars,
                   gersVars>>

\* fetch resolves with an OK response: response.json() is awaited.
StacFetchOk(i) ==
    /\ stacCalls[i].pc = "fetching"
    /\ stacCalls' = [stacCalls EXCEPT ![i].pc = "parsing"]
    /\ UNCHANGED <<cachedCatalog, searchVars, geomVars, dataVars, dbVars, duckVars, queryVars,
                   gersVars>>

\* fetch resolves with a response that is not OK, or rejects (network error,
\* or the abort of the timeout).
StacFetchFail(i) ==
    /\ stacCalls[i].pc = "fetching"
    /\ \E message \in {ErrStatus, Rethrown("TypeError", ErrNetwork),
                       Rethrown("AbortError", "This operation was aborted")} :
          stacCalls' = [stacCalls EXCEPT ![i].pc = "thrown", ![i].err = <<message>>]
    /\ UNCHANGED <<cachedCatalog, searchVars, geomVars, dataVars, dbVars, duckVars, queryVars,
                   gersVars>>

\* response.json() resolves with data: it is validated, cached and returned,
\* or the structure error is thrown.
StacJsonOk(i, data) ==
    /\ stacCalls[i].pc = "parsing"
    /\ cachedCatalog' = ParsedCache(data, cachedCatalog)
    /\ IF ValidStructure(data)
       THEN stacCalls' = [stacCalls EXCEPT ![i].pc = "returned",
                                           ![i].res = <<StacReturn(stacCalls[i].fn, data)>>]
       ELSE stacCalls' = [stacCalls EXCEPT ![i].pc = "thrown", ![i].err = <<ErrStructure>>]
    /\ UNCHANGED <<searchVars, geomVars, dataVars, dbVars, duckVars, queryVars, gersVars>>

\* response.json() rejects: the body is not JSON, or the timeout aborted it.
StacJsonFail(i) ==
    /\ stacCalls[i].pc = "parsing"
    /\ \E message \in {Rethrown("SyntaxError", ErrJson),
                       Rethrown("AbortError", "This operation was aborted")} :
          stacCalls' = [stacCalls EXCEPT ![i].pc = "thrown", ![i].err = <<message>>]
    /\ UNCHANGED <<cachedCatalog, searchVars, geomVars, dataVars, dbVars, duckVars, queryVars,
                   gersVars>>

\* The caller has taken the outcome of call i; the slot serves a later call.
StacTake(i) ==
    /\ stacCalls[i].pc \in {"returned", "thrown"}
    /\ stacCalls' = [stacCalls EXCEPT ![i] = StacCallIdle]
    /\ UNCHANGED <<cachedCatalog, searchVars, geomVars, dataVars, dbVars, duckVars, queryVars,
                   gersVars>>

\* clearCache()
ClearCache ==
    /\ cachedCatalog # <<>>
    /\ cachedCatalog' = <<>>
    /\ UNCHANGED <<stacVars, searchVars, geomVars, dataVars, dbVars, duckVars, queryVars, gersVars>>

\* ------------------------------------------------------------------------
\* The remote data drawn for the model
\* ------------------------------------------------------------------------
MainQuery == Box(0, 0, 10, 10)
NearBox == Box(5, 5, 20, 20)
EdgeBox == Box(10, 0, 20, 10)
InsideBox == Box(2, 2, 3, 3)
FarBox == Box(20, 20, 30, 30)

\* A data row: columns id, names, bbox, geometry. Relative to MainQuery the
\* row is inside ("in"), outside ("out"), touching its east edge ("touch"),
\* inside with bytes that are not WKB ("bad"), inside with a null geometry
\* ("nogeom"), or without a bbox ("nobbox").
MkRow(kind, id) ==
    [id |-> id,
     names |-> "n",
     bbox |-> CASE kind = "out" -> <<FarBox>>
                [] kind = "touch" -> <<EdgeBox>>
                [] kind = "nobbox" -> <<>>
                [] OTHER -> <<InsideBox>>,
     geometry |-> CASE kind = "bad" -> "garbage"
                    [] kind = "nogeom" -> Null
                    [] OTHER -> "wkbPoint12"]

RowKinds == {"in", "out", "touch", "bad"}

\* Data files from a flat list of <<kind, file number>>: file k holds the rows
\* listed for it, in order; a row's id is its position in the flat list.
FilesOf(flat) ==
    [k \in 1..MaxFiles |->
        LET idx == {i \in 1..Len(flat) : flat[i][2] = k}
            Nth(n) == CHOOSE i \in idx : Cardinality({h \in idx : h < i}) = n - 1
        IN  [n \in 1..Cardinality(idx) |-> MkRow(flat[Nth(n)][1], Nth(n))]]

FlatLists ==
    {flat \in UNION {[1..n -> RowKinds \X (1..MaxFiles)] : n \in 0..MaxRows} :
        \A i \in 1..(Len(flat) - 1) : flat[i][2] <= flat[i + 1][2]}

DrawnFiles == {FilesOf(flat) : flat \in FlatLists}

\* Every file holds a row without bbox, a row inside, a row without geometry
\* and another row inside.
SampleFiles ==
    [k \in 1..MaxFiles |->
        <<MkRow("nobbox", 4 * k), MkRow("in", 4 * k + 1),
          MkRow("nogeom", 4 * k + 2), MkRow("in", 4 * k + 3)>>]

\* An index row for data file k. Relative to MainQuery and type "place" the
\* row matches ("hit"), matches with an aws-s3 asset only ("s3"), touches
\* ("touch"), is of another collection ("other"), is not a Feature ("coll"),
\* has no bbox ("nobbox"), has no aws asset ("noasset"), or has an aws-https
\* asset with an empty href ("emptyhref").
MkEntry(kind, k) ==
    [collection |-> IF kind = "other" THEN "building" ELSE "place",
     type |-> IF kind = "coll" THEN "Collection" ELSE "Feature",
     bbox |-> CASE kind = "touch" -> <<EdgeBox>>
                [] kind = "nobbox" -> <<>>
                [] OTHER -> <<NearBox>>,
     assets |->
        [https |-> CASE kind \in {"s3", "noasset"} -> <<>>
                     [] kind = "emptyhref" -> <<[href |-> <<>>]>>
                     [] OTHER -> <<[href |-> <<HttpsPrefix, FileName[k]>>]>>,
         s3 |-> IF kind = "noasset"
                THEN <<>>
                ELSE <<[href |-> <<S3Prefix, FileName[k]>>]>>]]

EntryKinds == {"hit", "s3", "touch", "other", "coll", "nobbox", "noasset", "emptyhref"}

DrawnIndexes ==
    {[k \in 1..Len(kinds) |-> MkEntry(kinds[k], k)] :
        kinds \in UNION {[1..n -> EntryKinds] : n \in 0..MaxFiles}}

\* Every data file is listed, each by a matching row.
HitIndex == [k \in 1..MaxFiles |-> MkEntry("hit", k)]

\* Query boxes, valid and not.
QueryBoxes ==
    {Box(x1, y1, x2, y2) : x1 \in {-181, -180, 0, 10, 180, 181},
                           y1 \in {-91, -90, 0, 10, 90, 91},
                           x2 \in {-181, -180, 0, 10, 180, 181},
                           y2 \in {-91, -90, 0, 10, 90, 91}}

Limits == {<<>>} \cup {<<n>> : n \in 0..MaxLimit}

\* ------------------------------------------------------------------------
\* Initial states of the parts
\* ------------------------------------------------------------------------
SearchIdle ==
    /\ sManifest = <<>>
    /\ sKey = <<>>
    /\ sResult = <<>>

GeomIdle ==
    /\ boxA = Box(0, 0, 0, 0)
    /\ boxB = Box(0, 0, 0, 0)
    /\ resAB = <<>>
    /\ resBA = <<>>

DataIdle ==
    /\ stacRows = <<>>
    /\ files = [k \in 1..MaxFiles |-> <<>>]

GersDataIdle ==
    /\ gRemoteCatalog = [latest |-> "2024-12-18.0", registry |-> <<>>]
    /\ gRegRows = <<>>
    /\ gFeatRows = <<>>

\* gers.ts after module load, no call yet.
GersFresh ==
    /\ wasmInitialized = FALSE
    /\ gPc = "idle"
    /\ gReg = <<>>
    /\ gLeft = <<>>
    /\ gOpenHandles = 0
    /\ gResult = <<>>
    /\ gError = <<>>
    /\ gNet = <<>>

GersIdle ==
    /\ GersFresh
    /\ GersDataIdle
    /\ gFn = "queryGersRegistry"
    /\ gId = <<>>
    /\ gOpt = <<>>

\* No caller of stac.ts.
StacIdle == stacCalls = [i \in 1..MaxStacCalls |-> StacCallIdle]

\* duckdb.ts after module load.
DuckFresh ==
    /\ duckdb = 0
    /\ duckdbConnection = 0
    /\ duckdbAvailable = <<>>
    /\ initPromise = 0
    /\ probes = <<>>
    /\ callers = [c \in 0..MaxCallers |->
                    [st |-> "idle", on |-> 0, val |-> <<>>, backend |-> "none"]]
    /\ closePc = "idle"

\* No activation of readByBbox yet; stac.ts after module load.
BboxFresh ==
    /\ qType = "place"
    /\ cachedCatalog = <<>>
    /\ rPc = "idle"
    /\ pulling = FALSE
    /\ release = <<>>
    /\ filePaths = <<>>
    /\ useDuckDB = <<>>
    /\ count = 0
    /\ fileIdx = 0
    /\ remainingLimit = <<>>
    /\ rows = <<>>
    /\ rowPos = 1
    /\ streamLeft = <<>>
    /\ openHandles = {}
    /\ yielded = <<>>
    /\ rError = <<>>
    /\ log = <<>>

BboxIdle ==
    /\ BboxFresh
    /\ qBbox = MainQuery
    /\ qLimit = <<>>

\* ------------------------------------------------------------------------
\* Specification Spec: one readByBbox call and its consumer
\* ------------------------------------------------------------------------
Init ==
    /\ SearchIdle
    /\ GeomIdle
    /\ DuckFresh
    /\ StacIdle
    /\ DbIdle
    /\ GersIdle
    /\ BboxFresh
    /\ \/ /\ stacRows \in DrawnIndexes
          /\ files = SampleFiles
          /\ qBbox = MainQuery
          /\ qLimit = <<>>
       \/ /\ stacRows = HitIndex
          /\ files \in DrawnFiles
          /\ qBbox = MainQuery
          /\ qLimit \in Limits
       \/ /\ stacRows = HitIndex
          /\ files = SampleFiles
          /\ qBbox \in QueryBoxes
          /\ qLimit \in {<<>>, <<1>>}

\* A step of the probe readByBbox started.
InitStep ==
    /\ \E p \in 1..Len(probes) : ProbeStep(p)
    /\ UNCHANGED <<searchVars, geomVars, gersVars, dataVars, dbVars, stacVars, bboxVars>>

\* A failing step of the probe.
InitError ==
    /\ \E p \in 1..Len(probes) : ProbeError(p)
    /\ UNCHANGED <<searchVars, geomVars, gersVars, dataVars, dbVars, stacVars, bboxVars>>

Next ==
    \/ Call
    \/ FirstPull
    \/ ReleaseOk
    \/ ReleaseFail
    \/ IndexOk
    \/ IndexFail
    \/ InitStep
    \/ InitError
    \/ ProbeResolved
    \/ OpenOk
    \/ OpenFail
    \/ StreamOk
    \/ StreamFail
    \/ ReadBatch
    \/ ReadDone
    \/ ReadFail
    \/ QueryOk
    \/ QueryFail
    \/ Resume
    \/ Break

Spec == Init /\ [][Next]_vars

\* ------------------------------------------------------------------------
\* Specification SpecDuck: concurrent callers of isDuckDBAvailable, and
\* closeDuckDB
\* ------------------------------------------------------------------------
InitDuck ==
    /\ SearchIdle
    /\ GeomIdle
    /\ DataIdle
    /\ DuckFresh
    /\ StacIdle
    /\ DbIdle
    /\ GersIdle
    /\ BboxIdle

\* Caller c (a readByBbox activation at "await isDuckDBAvailable()") calls.
CallerCall ==
    /\ \E c \in 1..MaxCallers : isDuckDBAvailable(c)
    /\ UNCHANGED <<searchVars, geomVars, gersVars, dataVars, dbVars, stacVars, bboxVars>>

\* The await of caller c returns and the caller picks its backend.
CallerResume ==
    /\ \E c \in 1..MaxCallers :
          /\ Settled(c)
          /\ callers' = [callers EXCEPT ![c] = CallerAfterAwait(c)]
    /\ UNCHANGED <<duckdb, duckdbConnection, duckdbAvailable, initPromise, probes, closePc,
                   searchVars, geomVars, gersVars, dataVars, dbVars, stacVars, bboxVars>>

CloseDuckDB ==
    /\ CloseStart \/ CloseConnDone \/ CloseDbDone \/ CloseFail
    /\ UNCHANGED <<searchVars, geomVars, gersVars, dataVars, dbVars, stacVars, bboxVars>>

NextDuck ==
    \/ CallerCall
    \/ CallerResume
    \/ InitStep
    \/ InitError
    \/ CloseDuckDB

SpecDuck == InitDuck /\ [][NextDuck]_vars

\* ------------------------------------------------------------------------
\* Specification SpecGers: one call of queryGersRegistry or of
\* getFeatureByGersId
\* ------------------------------------------------------------------------

\* n copies of the character c.
Rep(c, n) == [i \in 1..n |-> c]

\* An id in UUID layout whose first group is made of c and the others of d.
MkId(c, d) ==
    Rep(c, 8) \o <<"-">> \o Rep(d, 4) \o <<"-">> \o Rep(d, 4) \o <<"-">> \o Rep(d, 4)
        \o <<"-">> \o Rep(d, 12)

\* Ids in UUID format, in lower, upper and mixed case.
ValidIds ==
    {MkId("3", "3"), MkId("9", "f"), MkId("a", "A"), MkId("A", "a"), MkId("F", "F")}

\* Strings that are not in UUID format: empty, a letter outside a-f, too
\* short, too long, a trailing line feed, a leading blank, no dashes, a dash
\* one place early, braces around a UUID.
InvalidIds ==
    {<<>>,
     MkId("g", "3"),
     MkId("3", "G"),
     Take(MkId("3", "3"), 35),
     MkId("3", "3") \o <<"3">>,
     MkId("3", "3") \o <<"\n">>,
     <<" ">> \o Take(MkId("3", "3"), 35),
     Rep("3", 36),
     Rep("3", 32),
     Rep("3", 7) \o <<"-", "3">> \o SubSeq(MkId("3", "3"), 10, 36),
     <<"{">> \o Take(MkId("3", "3"), 34) \o <<"}">>}

\* The manifest of the registry: two files, sorted by their greatest id.
GoodManifest ==
    << <<"r1.parquet", MkId("5", "5")>>, <<"r2.parquet", MkId("a", "f")>> >>

MkCatalog(registry) == [latest |-> "2024-12-18.0", registry |-> registry]

RemoteCatalogs ==
    {MkCatalog(<<>>),
     MkCatalog(<<[path |-> "registry", manifest |-> <<>>]>>),
     MkCatalog(<<[path |-> "registry", manifest |-> GoodManifest]>>)}

GoodCatalog == MkCatalog(<<[path |-> "registry", manifest |-> GoodManifest]>>)

FullBbox == [xmin |-> <<1>>, ymin |-> <<2>>, xmax |-> <<1>>, ymax |-> <<2>>]
PartBbox == [xmin |-> <<1>>, ymin |-> <<>>, xmax |-> <<1>>, ymax |-> <<2>>]

\* A row of the registry file.
MkRegRow(id, path, bbox) ==
    [id |-> id, path |-> path, bbox |-> bbox, version |-> <<1>>,
     first_seen |-> "2024-01-01", last_seen |-> "2024-12-18", last_changed |-> Null]

\* Registry files: for each id of the first manifest range a row (its id
\* stored in upper or lower case) with an absolute path, a relative path or
\* no path, and a complete, partial or missing bbox; or no row.
RegistryFiles ==
    {<<>>}
      \cup { << MkRegRow(MkId("0", "0"), << <<"/", "theme=base/f0.parquet">> >>, <<>>),
                MkRegRow(id, path, bbox) >> :
             id \in {MkId("3", "3"), MkId("a", "A"), MkId("F", "F")},
             path \in {<<>>, << <<"/", "theme=places/f1.parquet">> >>,
                       << <<"theme=places/f1.parquet">> >>},
             bbox \in {<<>>, <<FullBbox>>, <<PartBbox>>} }

GoodRegistryFile ==
    << MkRegRow(MkId("3", "3"), << <<"/", "theme=places/f1.parquet">> >>, <<FullBbox>>),
       MkRegRow(MkId("A", "a"), << <<"/", "theme=places/f1.parquet">> >>, <<FullBbox>>) >>

\* A row of a feature file (the files of a release carry a bbox column).
MkFeatRow(id, geometry) ==
    [id |-> id, geometry |-> geometry, names |-> "n", bbox |-> <<InsideBox>>]

\* Feature files: two rows other than the one looked for, then possibly the
\* row of the id, with a geometry that is WKB, is not WKB, or is null.
FeatureFiles ==
    LET others == << MkFeatRow(MkId("0", "0"), "wkbPoint12"),
                     MkFeatRow(MkId("5", "5"), "wkbPoint12") >>
    IN  {<<>>, others}
          \cup { others \o <<MkFeatRow(id, geometry)>> :
                 id \in {MkId("3", "3"), MkId("A", "A")},
                 geometry \in {"wkbPoint12", "garbage", Null} }

GoodFeatureFile ==
    << MkFeatRow(MkId("0", "0"), "wkbPoint12"),
       MkFeatRow(MkId("5", "5"), "wkbPoint12"),
       MkFeatRow(MkId("3", "3"), "wkbPoint12"),
       MkFeatRow(MkId("A", "A"), "wkbPoint12") >>

\* A registry result a caller passes as options.registryResult.
GivenRegistryResult ==
    [filepath |-> <<"overturemaps-us-west-2/release/", "2024-12-18.0", "/",
                    "theme=places/f1.parquet">>,
     bbox |-> <<Box(1, 2, 1, 2)>>,
     version |-> <<1>>,
     firstSeen |-> "2024-01-01",
     lastSeen |-> "2024-12-18",
     lastChanged |-> Null]

InitGers ==
    /\ SearchIdle
    /\ GeomIdle
    /\ DataIdle
    /\ DuckFresh
    /\ StacIdle
    /\ DbIdle
    /\ BboxIdle
    /\ GersFresh
    /\ gFn \in {"queryGersRegistry", "getFeatureByGersId"}
    /\ gOpt \in IF gFn = "getFeatureByGersId"
                THEN {<<>>, <<GivenRegistryResult>>}
                ELSE {<<>>}
    /\ \/ /\ gId \in ValidIds \cup InvalidIds
          /\ gRemoteCatalog \in RemoteCatalogs
          /\ gRegRows = GoodRegistryFile
          /\ gFeatRows = GoodFeatureFile
       \/ /\ gId \in {MkId("3", "3"), MkId("A", "a")}
          /\ gRemoteCatalog = GoodCatalog
          /\ gRegRows \in RegistryFiles
          /\ gFeatRows \in FeatureFiles

NextGers ==
    \/ GersCall
    \/ GersCatalogOk
    \/ GersCatalogFail
    \/ GersRegistryOk
    \/ GersRegistryFail
    \/ GersOpenOk
    \/ GersOpenFail
    \/ GersStreamOk
    \/ GersStreamFail
    \/ GersReadBatch
    \/ GersReadDone
    \/ GersReadFail

SpecGers == InitGers /\ [][NextGers]_vars

\* ------------------------------------------------------------------------
\* Specification SpecStac: concurrent callers of stac.ts and clearCache
\* ------------------------------------------------------------------------

\* Release names, abbreviated to two characters.
Release03 == <<"0", "3">>
Release05 == <<"0", "5">>

SelfLink == [rel |-> "self", href |-> <<"https://stac.overturemaps.org/catalog.json">>]
ChildLink(version) == [rel |-> "child", href |-> <<"./", version, "/catalog.json">>]
OtherChild == [rel |-> "child", href |-> <<"https://example.org/other.json">>]

\* The bodies the server answers with: two valid catalogs (the second one
\* after a new release), a body that is not an object, one without latest,
\* one with an empty latest, one whose links is not an array.
ValidBodies ==
    {MkBody(TRUE, <<Release03>>, << <<SelfLink, ChildLink(Release03)>> >>),
     MkBody(TRUE, <<Release05>>,
            << <<SelfLink, ChildLink(Release03), OtherChild, ChildLink(Release05)>> >>)}

InvalidBodies ==
    {MkBody(FALSE, <<>>, <<>>),
     MkBody(TRUE, <<>>, << <<SelfLink>> >>),
     MkBody(TRUE, << <<>> >>, << <<SelfLink>> >>),
     MkBody(TRUE, <<Release03>>, <<>>)}

StacFns == {"getStacCatalog", "getLatestRelease", "getAvailableReleases"}

InitStac ==
    /\ SearchIdle
    /\ GeomIdle
    /\ DataIdle
    /\ DuckFresh
    /\ BboxIdle
    /\ GersIdle
    /\ StacIdle
    /\ DbIdle

NextStac ==
    \/ \E i \in 1..MaxStacCalls, fn \in StacFns :
          \E forceRefresh \in (IF fn = "getStacCatalog" THEN {FALSE, TRUE} ELSE {FALSE}) :
              StacCall(i, fn, forceRefresh)
    \/ \E i \in 1..MaxStacCalls : StacFetchOk(i)
    \/ \E i \in 1..MaxStacCalls : StacFetchFail(i)
    \/ \E i \in 1..MaxStacCalls, data \in ValidBodies \cup InvalidBodies : StacJsonOk(i, data)
    \/ \E i \in 1..MaxStacCalls : StacJsonFail(i)
    \/ \E i \in 1..MaxStacCalls : StacTake(i)
    \/ ClearCache

SpecStac == InitStac /\ [][NextStac]_vars

\* ------------------------------------------------------------------------
\* Specification SpecDb: callers of getDb, the activations of doInitDuckDB
\* they start, and closeDb, their steps interleaved
\* ------------------------------------------------------------------------

InitDb ==
    /\ SearchIdle
    /\ GeomIdle
    /\ DataIdle
    /\ DuckFresh
    /\ BboxIdle
    /\ GersIdle
    /\ StacIdle
    /\ DbIdle

NextDb ==
    \/ \E c \in 1..MaxDbCallers : getDb(c)
    \/ \E c \in 1..MaxDbCallers : DbCallerResume(c)
    \/ \E k \in 1..MaxDbCallers : DbInitStep(k)
    \/ \E k \in 1..MaxDbCallers : DbInitError(k)
    \/ \E k \in 1..MaxDbCallers, ok \in BOOLEAN : DbInitCatchStep(k, ok)
    \/ closeDb
    \/ \E ok \in BOOLEAN : CloseDbConnStep(ok)
    \/ \E ok \in BOOLEAN : CloseDbTerminateStep(ok)

SpecDb == InitDb /\ [][NextDb]_vars

\* ------------------------------------------------------------------------
\* Specification SpecAll: one readByBbox call and one GERS lookup, their
\* steps interleaved (they share the catalog cache of stac.ts)
\* ------------------------------------------------------------------------

\* Two data files: a decodable row, an undecodable row and a row outside the
\* query in the first, a decodable row in the second.
MixedFiles ==
    FilesOf(<< <<"in", 1>>, <<"bad", 1>>, <<"out", 1>>, <<"in", 2>> >>)

InitAll ==
    /\ SearchIdle
    /\ GeomIdle
    /\ DuckFresh
    /\ StacIdle
    /\ DbIdle
    /\ BboxFresh
    /\ GersFresh
    /\ stacRows = HitIndex
    /\ files \in {SampleFiles, MixedFiles}
    /\ qBbox = MainQuery
    /\ qLimit \in {<<>>, <<1>>}
    /\ gFn \in {"queryGersRegistry", "getFeatureByGersId"}
    /\ gOpt \in IF gFn = "getFeatureByGersId"
                THEN {<<>>, <<GivenRegistryResult>>}
                ELSE {<<>>}
    /\ gId \in {MkId("3", "3"), MkId("A", "a"), MkId("g", "3")}
    /\ gRemoteCatalog = GoodCatalog
    /\ gRegRows = GoodRegistryFile
    /\ gFeatRows \in {GoodFeatureFile,
                      <<MkFeatRow(MkId("3", "3"), "garbage")>>,
                      <<MkFeatRow(MkId("a", "a"), Null)>>}

NextAll == Next \/ NextGers

SpecAll == InitAll /\ [][NextAll]_vars

\* ------------------------------------------------------------------------
\* Specification SpecSearch: binarySearchManifest on drawn inputs
\* ------------------------------------------------------------------------
KeyChars == {"3", "9"}

\* All strings over KeyChars of length 1..MaxKeyLen.
Keys == UNION {[1..n -> KeyChars] : n \in 1..MaxKeyLen}

ShardNames == <<"a", "b", "c", "d", "e", "f">>

\* A manifest over the given max ids: entry i names shard i.
MkManifest(ids) == [i \in 1..Len(ids) |-> <<ShardNames[i], ids[i]>>]

\* Sorted ascending by maxId, duplicates allowed.
IsSortedManifest(m) ==
    \A i \in 1..(Len(m) - 1) : ~StrLt(m[i + 1][2], m[i][2])

SortedManifests ==
    {m \in {MkManifest(ids) : ids \in UNION {[1..n -> Keys] : n \in 0..MaxManifest}} :
        IsSortedManifest(m)}

\* The scenario of the documentation: [(a,3000),(b,6000),(c,9000)].
ScenarioManifest ==
    MkManifest(<< <<"3","0","0","0">>, <<"6","0","0","0">>, <<"9","0","0","0">> >>)
ScenarioKeys ==
    { <<"5","0","0","0">>, <<"9","0","0","0">>, <<"9","5","0","0">>, <<"3","0","0","0">>,
      <<"0">>, <<"3","0","0","0","0">> }

InitSearch ==
    /\ \/ sManifest \in SortedManifests /\ sKey \in Keys
       \/ sManifest = ScenarioManifest /\ sKey \in ScenarioKeys
    /\ sResult = <<>>
    /\ GeomIdle
    /\ DataIdle
    /\ DuckFresh
    /\ StacIdle
    /\ DbIdle
    /\ GersIdle
    /\ BboxIdle

\* The call binarySearchManifest(manifest, key).
Search ==
    /\ sResult = <<>>
    /\ sResult' = <<binarySearchManifest(sManifest, sKey)>>
    /\ UNCHANGED <<sManifest, sKey, geomVars, gersVars, dataVars, dbVars, stacVars, duckVars, bboxVars>>

NextSearch == Search

SpecSearch == InitSearch /\ [][NextSearch]_vars

\* ------------------------------------------------------------------------
\* Specification SpecGeom: bboxIntersects on drawn inputs
\* ------------------------------------------------------------------------
Boxes ==
    {Box(x1, y1, x2, y2) : x1 \in 0..MaxCoord, y1 \in 0..MaxCoord,
                           x2 \in 0..MaxCoord, y2 \in 0..MaxCoord}

\* Rectangles with xmin <= xmax and ymin <= ymax (a point or a segment is the
\* box of a point or an axis-parallel line feature).
ValidBoxes == {b \in Boxes : b.xmin <= b.xmax /\ b.ymin <= b.ymax}

\* The scenario of the documentation.
ScenarioQuery == Box(-10, -10, 10, 10)
ScenarioNear == Box(5, 5, 20, 20)
ScenarioFar == Box(11, 11, 20, 20)

InitGeom ==
    /\ \/ boxA \in ValidBoxes /\ boxB \in ValidBoxes
       \/ boxA = ScenarioQuery /\ boxB \in {ScenarioNear, ScenarioFar}
       \/ boxB = ScenarioQuery /\ boxA \in {ScenarioNear, ScenarioFar}
    /\ resAB = <<>>
    /\ resBA = <<>>
    /\ SearchIdle
    /\ DataIdle
    /\ DuckFresh
    /\ StacIdle
    /\ DbIdle
    /\ GersIdle
    /\ BboxIdle

\* The call bboxIntersects(boxA, boxB).
IntersectAB ==
    /\ resAB = <<>>
    /\ resAB' = <<bboxIntersects(boxA, boxB)>>
    /\ UNCHANGED <<boxA, boxB, resBA, searchVars, gersVars, dataVars, dbVars, stacVars, duckVars, bboxVars>>

\* The call bboxIntersects(boxB, boxA).
IntersectBA ==
    /\ resBA = <<>>
    /\ resBA' = <<bboxIntersects(boxB, boxA)>>
    /\ UNCHANGED <<boxA, boxB, resAB, searchVars, gersVars, dataVars, dbVars, stacVars, duckVars, bboxVars>>

NextGeom == IntersectAB \/ IntersectBA

SpecGeom == InitGeom /\ [][NextGeom]_vars

\* ------------------------------------------------------------------------
\* Claims
\* ------------------------------------------------------------------------

\* C1: on a manifest sorted ascending by max key, binarySearchManifest
\* returns the file of the smallest index i with key <= maxKey[i] (so
\* maxKey[i-1] < key), and null exactly when the key is greater than every
\* maxKey; on [(a,3000),(b,6000),(c,9000)] key 5000 gives b, 9000 gives c and
\* 9500 gives null.
C1_LocateShard ==
    sResult # <<>> =>
        LET hits == {i \in 1..Len(sManifest) : ~StrLt(sManifest[i][2], sKey)}
            first == CHOOSE i \in hits : \A j \in hits : i <= j
        IN  /\ hits = {} <=> sResult[1] = Null
            /\ hits # {} =>
                /\ sResult[1] = sManifest[first][1]
                /\ first > 1 => StrLt(sManifest[first - 1][2], sKey)
            /\ sManifest = ScenarioManifest =>
                /\ sKey = <<"5","0","0","0">> => sResult[1] = "b"
                /\ sKey = <<"9","0","0","0">> => sResult[1] = "c"
                /\ sKey = <<"9","5","0","0">> => sResult[1] = Null

\* C1 witness: a search on a manifest with a duplicated max key that equals
\* the key has returned the first of the duplicates.
C1_Witness ==
    /\ sResult # <<>>
    /\ Len(sManifest) = 3
    /\ sManifest[2][2] = sManifest[3][2]
    /\ sManifest[2][2] = sKey
    /\ StrLt(sManifest[1][2], sKey)
    /\ sResult[1] = "b"

\* The unit cells [i, i+1] x [j, j+1] that lie inside rectangle b.
CellInside(i, j, b) ==
    b.xmin <= i /\ i + 1 <= b.xmax /\ b.ymin <= j /\ j + 1 <= b.ymax

\* Two rectangles with integer corners share interior area exactly when some
\* unit cell lies inside both.
ShareInterior(a, b) ==
    \E i \in a.xmin..(a.xmax - 1), j \in a.ymin..(a.ymax - 1) :
        CellInside(i, j, a) /\ CellInside(i, j, b)

\* A side of one rectangle lies on the line of the opposite side of the other.
Touching(a, b) ==
    a.xmax = b.xmin \/ b.xmax = a.xmin \/ a.ymax = b.ymin \/ b.ymax = a.ymin

\* C6: bboxIntersects is strict on all four sides: rectangles that touch at an
\* edge or a corner are not overlapping, rectangles that share interior area
\* are; {-10,-10,10,10} overlaps {5,5,20,20} and not {11,11,20,20}.
C6_StrictOverlap ==
    resAB # <<>> =>
        /\ Touching(boxA, boxB) => resAB[1] = FALSE
        /\ ShareInterior(boxA, boxB) => resAB[1] = TRUE
        /\ (boxA = ScenarioQuery /\ boxB = ScenarioNear) => resAB[1] = TRUE
        /\ (boxA = ScenarioQuery /\ boxB = ScenarioFar) => resAB[1] = FALSE

\* C6 witness: two proper rectangles that meet along an edge (A.xmax = B.xmin,
\* overlapping y ranges) have been tested and found not overlapping.
C6_Witness ==
    /\ resAB = <<FALSE>>
    /\ boxA.xmin < boxA.xmax /\ boxA.ymin < boxA.ymax
    /\ boxB.xmin < boxB.xmax /\ boxB.ymin < boxB.ymax
    /\ boxA.xmax = boxB.xmin
    /\ boxA.ymin = boxB.ymin /\ boxA.ymax = boxB.ymax

\* C7: bboxIntersects(A, B) = bboxIntersects(B, A).
C7_Symmetric ==
    (resAB # <<>> /\ resBA # <<>>) => resAB[1] = resBA[1]

\* C7 witness: both orders have been evaluated on two different rectangles
\* that overlap.
C7_Witness ==
    /\ resAB = <<TRUE>>
    /\ resBA = <<TRUE>>
    /\ boxA # boxB

\* ------------------------------------------------------------------------
\* Claims about readByBbox (specification Spec)
\* ------------------------------------------------------------------------

\* The number of yields among the first n entries of the log.
YieldsBefore(n) == Cardinality({i \in 1..n : log[i] = <<"yield">>})

\* C2: with a limit N >= 1, readByBbox yields at most N features, and after
\* the N-th yield no data file is opened, queried or read, on either backend.
C2_LimitBound ==
    (qLimit # <<>> /\ qLimit[1] >= 1) =>
        /\ Len(yielded) <= qLimit[1]
        /\ \A i \in 1..Len(log) :
              log[i][1] \in {"open", "query", "read"} => YieldsBefore(i) < qLimit[1]

\* C2 witness: a call with a limit has ended by reaching the limit before
\* the last candidate file.
C2_Witness ==
    /\ rPc = "done"
    /\ qLimit # <<>>
    /\ qLimit[1] >= 1
    /\ Len(yielded) = qLimit[1]
    /\ fileIdx < Len(filePaths)

\* The features of the rows rs, in order, for one backend.
RECURSIVE FeaturesOf(_, _)
FeaturesOf(duck, rs) ==
    IF rs = <<>>
    THEN <<>>
    ELSE RowToFeature(duck, Head(rs), qBbox) \o FeaturesOf(duck, Tail(rs))

\* What the query yields without a limit: every candidate file in order,
\* every row the backend admits, in storage order.
RECURSIVE UnlimitedFrom(_, _)
UnlimitedFrom(duck, i) ==
    IF i > Len(filePaths)
    THEN <<>>
    ELSE LET fileRows == files[FileNo(filePaths[i])]
         IN  FeaturesOf(duck, IF duck THEN SqlBboxQuery(fileRows, qBbox, <<>>) ELSE fileRows)
                \o UnlimitedFrom(duck, i + 1)

\* A call without a limit that ends normally has yielded UnlimitedFrom.
UnlimitedIsYielded ==
    (rPc = "done" /\ qLimit = <<>> /\ useDuckDB # <<>>) =>
        yielded = UnlimitedFrom(useDuckDB[1], 1)

\* C3: with a limit N >= 1 a call that ends normally has yielded exactly the
\* first min(N, M) features of the M features the query yields without a
\* limit (rows that are filtered out do not consume the limit).
C3_LimitIsPrefix ==
    (rPc = "done" /\ qLimit # <<>> /\ qLimit[1] >= 1 /\ useDuckDB # <<>>) =>
        yielded = Take(UnlimitedFrom(useDuckDB[1], 1), qLimit[1])

\* The bounding boxes the validation is to reject.
InvalidBbox(b) ==
    \/ b.xmin >= b.xmax
    \/ b.ymin >= b.ymax
    \/ b.xmin < -180
    \/ b.xmax > 180
    \/ b.ymin < -90
    \/ b.ymax > 90

\* C4: with an invalid bbox readByBbox fails with an invalid-bounding-box
\* error, yields nothing and makes no network call: no catalog fetch, no
\* index read, no probe, no data file read.
C4_InvalidBboxNoIo ==
    InvalidBbox(qBbox) =>
        /\ rPc \in {"idle", "created", "failed"}
        /\ rPc = "failed" => rError \in {<<ErrOrder>>, <<ErrRange>>}
        /\ yielded = <<>>
        /\ log = <<>>
        /\ probes = <<>>
        /\ cachedCatalog = <<>>
        /\ openHandles = {}

\* C4 witness: a call with a well-ordered bbox that exceeds 180 degrees east
\* has failed.
C4_Witness ==
    /\ rPc = "failed"
    /\ qBbox.xmin < qBbox.xmax
    /\ qBbox.ymin < qBbox.ymax
    /\ qBbox.xmax > 180
    /\ rError = <<ErrRange>>

\* getFilesFromStac has read the index and returned.
IndexRead ==
    /\ \E i \in 1..Len(log) : log[i] = <<"index">>
    /\ rPc # "indexing"
    /\ rError # <<ErrIndex>>

\* The index row is of the requested type, a Feature, and overlaps the query.
Matches(row) ==
    /\ row.collection = qType
    /\ row.type = "Feature"
    /\ row.bbox # <<>>
    /\ bboxIntersects(qBbox, row.bbox[1])

\* The row's selected asset (aws-https when present, else aws-s3) has a
\* non-empty href.
HasHref(row) ==
    LET asset == IF row.assets.https # <<>> THEN row.assets.https ELSE row.assets.s3
    IN  asset # <<>> /\ asset[1].href # <<>>

\* The n-th smallest element of a set of numbers.
NthOf(set, n) == CHOOSE i \in set : Cardinality({h \in set : h < i}) = n - 1

\* filePaths lists, in index order, the data file of every index row whose
\* number is in keep (index row k lists data file k).
ListsExactly(keep) ==
    /\ Len(filePaths) = Cardinality(keep)
    /\ \A n \in 1..Len(filePaths) : filePaths[n] = <<FileName[NthOf(keep, n)]>>

\* C8 as claimed: the result of getFilesFromStac holds one location for every
\* index row of the requested type that is a Feature and overlaps the query
\* bbox, nothing else, in index order.
C8_ExactFilter ==
    IndexRead => ListsExactly({i \in 1..Len(stacRows) : Matches(stacRows[i])})

\* C8 amended: the result of getFilesFromStac holds one location for every
\* index row of the requested type that is a Feature, overlaps the query bbox
\* and whose selected asset has a non-empty href, nothing else, in index order.
C8_StableFilter ==
    IndexRead =>
        ListsExactly({i \in 1..Len(stacRows) : Matches(stacRows[i]) /\ HasHref(stacRows[i])})

\* C8 witness: of two index rows the first was filtered out and the second,
\* which has an aws-s3 asset only, was kept.
C8_Witness ==
    /\ IndexRead
    /\ Len(stacRows) = 2
    /\ stacRows[2].assets.https = <<>>
    /\ filePaths = << <<FileName[2]>> >>

\* C9: when no index row matches the type and overlaps the bbox,
\* getFilesFromStac returns an empty list and readByBbox ends normally with
\* no feature, no error, and no data file opened or queried.
C9_EmptyIsSuccess ==
    (IndexRead /\ \A i \in 1..Len(stacRows) : ~Matches(stacRows[i])) =>
        /\ filePaths = <<>>
        /\ rPc = "done"
        /\ rError = <<>>
        /\ yielded = <<>>
        /\ openHandles = {}
        /\ \A i \in 1..Len(log) : log[i][1] \notin {"open", "query", "read"}

\* C9 witness: the index holds a row of another type and a row that only
\* touches the query bbox, and the call has ended.
C9_Witness ==
    /\ IndexRead
    /\ rPc = "done"
    /\ Len(stacRows) = 2
    /\ stacRows[1].collection # qType
    /\ stacRows[2].bbox = <<EdgeBox>>
    /\ filePaths = <<>>

\* ------------------------------------------------------------------------
\* Claims about the probe (specification SpecDuck)
\* ------------------------------------------------------------------------

\* C10: initializeDuckDB runs at most once whatever the interleaving of the
\* isDuckDBAvailable calls; no call rejects; every call resolves to the same
\* boolean, the one the module remembers; a caller that got false uses the
\* full-stream backend.
C10_ProbedOnce ==
    /\ Len(probes) <= 1
    /\ \A c \in 0..MaxCallers :
          /\ callers[c].st # "rejected"
          /\ callers[c].st = "resolved" =>
                /\ callers[c].val = duckdbAvailable
                /\ callers[c].val = <<FALSE>> => callers[c].backend = "stream"
                /\ \A d \in 0..MaxCallers :
                      callers[d].st = "resolved" => callers[d].val = callers[c].val

\* C10 witness: the probe failed; two callers that called while it was
\* running and one that called after it had failed all resolved to false.
C10_Witness ==
    /\ Len(probes) = 1
    /\ probes[1].result = <<FALSE>>
    /\ \A c \in 1..MaxCallers : callers[c].st = "resolved" /\ callers[c].val = <<FALSE>>
    /\ \E c, d, e \in 1..MaxCallers :
          /\ c # d
          /\ callers[c].on = 1
          /\ callers[d].on = 1
          /\ callers[e].on = 0

\* ------------------------------------------------------------------------
\* Claims about the GERS lookup (specification SpecGers)
\* ------------------------------------------------------------------------

\* C5: with an id that is not in UUID format, queryGersRegistry and
\* getFeatureByGersId (with or without options.registryResult) reject with an
\* error whose message contains "Invalid GERS ID format", and make no network
\* call: no catalog fetch, no registry read, no feature file opened.
C5_InvalidIdNoIo ==
    gId \in InvalidIds =>
        /\ gPc \in {"idle", "rejected"}
        /\ gPc = "rejected" =>
              /\ gError # <<>>
              /\ gError[1][1] = "Invalid GERS ID format: "
        /\ gResult = <<>>
        /\ gNet = <<>>
        /\ cachedCatalog = <<>>
        /\ gOpenHandles = 0
        /\ wasmInitialized = FALSE

\* C5 witness: getFeatureByGersId, called with a registryResult and an id
\* that has a letter outside a-f, has rejected.
C5_Witness ==
    /\ gFn = "getFeatureByGersId"
    /\ gOpt # <<>>
    /\ gId = MkId("g", "3")
    /\ gPc = "rejected"
    /\ gNet = <<>>

\* a is a prefix of b.
IsPrefix(a, b) == Len(a) <= Len(b) /\ SubSeq(b, 1, Len(a)) = a

C12_HandlesFreed ==
    /\ rPc \in {"done", "failed", "closed"} => openHandles = {}
    /\ openHandles # {} =>
          /\ openHandles = {CurrentPath}
          /\ rPc \in {"streaming", "reading", "yielded"}
          /\ useDuckDB = <<FALSE>>
    /\ gPc \in {"resolved", "rejected"} => gOpenHandles = 0
    /\ gOpenHandles \in {0, 1}
    /\ gOpenHandles = 1 => gPc \in {"fstream", "fread"}

\* C12 witness: on the full-stream backend the consumer has left the loop
\* after a feature of an opened file, and getFeatureByGersId has returned the
\* feature it found in the file it opened; no handle is left.
C12_Witness ==
    /\ rPc = "closed"
    /\ useDuckDB = <<FALSE>>
    /\ Len(yielded) >= 1
    /\ \E i \in 1..Len(log) : log[i][1] = "open"
    /\ openHandles = {}
    /\ gPc = "resolved"
    /\ gResult # <<>>
    /\ \E i \in 1..Len(gNet) : gNet[i][1] = "read"
    /\ gOpenHandles = 0

\* ------------------------------------------------------------------------
\* More claims about readByBbox (specification Spec)
\* ------------------------------------------------------------------------

\* The rows of the candidate files from file number i of filePaths on, each
\* file's rows in storage order.
RECURSIVE CandidateRowsFrom(_)
CandidateRowsFrom(i) ==
    IF i > Len(filePaths)
    THEN <<>>
    ELSE files[FileNo(filePaths[i])] \o CandidateRowsFrom(i + 1)

\* The places in the candidate rows of the row with the id of feature f.
PlacesOf(f) ==
    {p \in 1..Len(CandidateRowsFrom(1)) : CandidateRowsFrom(1)[p].id = f.id}

\* C13: readByBbox performs no reordering. Every yielded feature comes from
\* one row of the candidate files, and the features are yielded in the order
\* of their rows in the concatenation of the candidate files (in the order of
\* getFilesFromStac, each in storage order); so every feature of a file is
\* yielded before any feature of a later file.
C13_NoReordering ==
    /\ \A i \in 1..Len(yielded) : Cardinality(PlacesOf(yielded[i])) = 1
    /\ \A i, j \in 1..Len(yielded) :
          i < j => \A p \in PlacesOf(yielded[i]) : \A q \in PlacesOf(yielded[j]) : p < q

\* C13 witness: a call has ended after yielding two features of its first
\* file and then a feature of its second file.
C13_Witness ==
    /\ rPc = "done"
    /\ Len(filePaths) = 2
    /\ Len(yielded) = 3
    /\ \E r \in 1..Len(files[1]) : files[1][r].id = yielded[2].id
    /\ \E r \in 1..Len(files[2]) : files[2][r].id = yielded[3].id

\* The row has a geometry that decodes.
Decodable(row) == row.geometry = "wkbPoint12"

\* The row's bbox overlaps the query bbox.
InQuery(row) == row.bbox # <<>> /\ bboxIntersects(qBbox, row.bbox[1])

\* Some yielded feature comes from the row.
YieldedRow(row) == \E i \in 1..Len(yielded) : yielded[i].id = row.id

PhaseOf(entry) ==
    IF entry = <<"catalog">> THEN 1 ELSE IF entry = <<"index">> THEN 2 ELSE 3

\* The phase a position of the generator belongs to.
RankOf(pc) ==
    CASE pc = "idle" -> 0
      [] pc = "created" -> 1
      [] pc = "resolving" -> 2
      [] pc = "indexing" -> 3
      [] pc = "probing" -> 4
      [] pc \in {"opening", "streaming", "reading", "querying", "yielded"} -> 5
      [] pc \in {"done", "failed", "closed"} -> 6

\* C18: a run of readByBbox goes through validation, release resolution,
\* index read and per-file streaming in that order and never goes back; no
\* I/O is logged for an invalid bbox, the index is requested only once the
\* release is known, a data file is entered only after the index was read;
\* and after the end (normal, failed or closed by the consumer) no feature
\* is yielded, no I/O is logged and the position stays.
C18_PhaseOrder ==
    [][ /\ RankOf(rPc') >= RankOf(rPc)
        /\ \A i, j \in 1..Len(log') : i < j => PhaseOf(log'[i]) <= PhaseOf(log'[j])
        /\ log' # <<>> => ~InvalidBbox(qBbox)
        /\ RankOf(rPc') \in 2..5 => ~InvalidBbox(qBbox)
        /\ (\E i \in 1..Len(log') : log'[i] = <<"index">>) => release' # <<>>
        /\ (\E i \in 1..Len(log') : PhaseOf(log'[i]) = 3) =>
              /\ \E i \in 1..Len(log') : log'[i] = <<"index">>
              /\ RankOf(rPc') >= 5
              /\ filePaths' # <<>>
        /\ RankOf(rPc') <= 3 => (yielded' = <<>> /\ openHandles' = {})
        /\ RankOf(rPc) = 6 =>
              /\ rPc' = rPc
              /\ yielded' = yielded
              /\ log' = log
              /\ openHandles' = openHandles
              /\ rError' = rError
      ]_vars

\* C18 witness: a run that fetched the catalog, read the index, opened and
\* read a data file, yielded features and ended normally.
C18_Witness ==
    /\ rPc = "done"
    /\ Len(log) >= 5
    /\ log[1] = <<"catalog">>
    /\ log[2] = <<"index">>
    /\ log[3] = <<"open">> \o filePaths[1]
    /\ log[4] = <<"read">> \o filePaths[1]
    /\ log[5] = <<"yield">>
    /\ Len(yielded) >= 1

\* File number k of the candidate list was queried or opened.
Entered(k) ==
    \E i \in 1..Len(log) :
        log[i] \in {<<"open">> \o filePaths[k], <<"query">> \o filePaths[k]}

\* The positions at which the generator waits for I/O.
Awaiting == {"resolving", "indexing", "probing", "opening", "streaming", "reading", "querying"}

\* The log entries a step adds.
Added == SubSeq(log', Len(log) + 1, Len(log'))

\* The candidate files the log shows as queried or opened.
EnteredFiles == {k \in 1..Len(filePaths) : Entered(k)}

C22_RaisedByCall ==
    (InvalidBbox(qBbox) /\ rPc # "idle") =>
        /\ rPc = "failed"
        /\ rError \in {<<ErrOrder>>, <<ErrRange>>}
        /\ log = <<>>

\* C22 amended: the call of readByBbox with an invalid bbox raises nothing
\* and returns the generator; the invalid-bbox error is raised by the
\* consumer's first pull, which is the next step of the call, before any I/O.
C22_RaisedAtFirstPull ==
    [][ InvalidBbox(qBbox) =>
          /\ rPc = "idle" => (rPc' \in {"idle", "created"} /\ rError' = <<>>)
          /\ (rPc = "created" /\ rPc' # "created") =>
                /\ rPc' = "failed"
                /\ rError' = <<IF qBbox.xmin >= qBbox.xmax \/ qBbox.ymin >= qBbox.ymax
                               THEN ErrOrder ELSE ErrRange>>
                /\ ~pulling'
          /\ log' = <<>>
          /\ yielded' = <<>>
      ]_vars

\* C22 witness: a call with xmax below xmin was created without an error and
\* failed at its first pull with the ordering error, nothing logged.
C22_Witness ==
    /\ qBbox.xmin >= qBbox.xmax
    /\ rPc = "failed"
    /\ rError = <<ErrOrder>>
    /\ log = <<>>

\* The same call after its creation and before its first pull.
C22_CreatedReached == InvalidBbox(qBbox) /\ rPc = "created" /\ rError = <<>>

\* C23 as claimed: both backends admit the same rows. Every row of a
\* candidate file satisfies the SQL predicate of queryParquetWithBbox exactly
\* when the client-side filter admits it, and a call without a limit that
\* ends normally has yielded, on either backend, exactly the decodable rows
\* the client-side filter admits.
C23_SameAdmission ==
    /\ \A p \in 1..Len(CandidateRowsFrom(1)) :
          SqlBboxPredicate(CandidateRowsFrom(1)[p], qBbox) <=> InQuery(CandidateRowsFrom(1)[p])
    /\ (rPc = "done" /\ qLimit = <<>>) =>
          \A p \in 1..Len(CandidateRowsFrom(1)) :
              YieldedRow(CandidateRowsFrom(1)[p])
                 <=> (Decodable(CandidateRowsFrom(1)[p]) /\ InQuery(CandidateRowsFrom(1)[p]))

\* The pushdown backend has ended a call normally having yielded a row whose
\* bbox only touches the query bbox.
C23_TouchingYielded ==
    /\ rPc = "done"
    /\ useDuckDB = <<TRUE>>
    /\ \E p \in 1..Len(CandidateRowsFrom(1)) :
          /\ YieldedRow(CandidateRowsFrom(1)[p])
          /\ ~InQuery(CandidateRowsFrom(1)[p])

\* On the full-stream backend the yielded rows are exactly the decodable rows
\* the client-side filter admits.
StreamAdmitsStrictly ==
    (rPc = "done" /\ qLimit = <<>> /\ useDuckDB = <<FALSE>>) =>
        \A p \in 1..Len(CandidateRowsFrom(1)) :
            YieldedRow(CandidateRowsFrom(1)[p])
               <=> (Decodable(CandidateRowsFrom(1)[p]) /\ InQuery(CandidateRowsFrom(1)[p]))

\* C24 as claimed: with limit 0 readByBbox yields no feature and neither
\* queries nor opens a candidate data file, on either backend.
C24_LimitZeroIsEmpty ==
    qLimit = <<0>> =>
        /\ yielded = <<>>
        /\ \A i \in 1..Len(log) : log[i][1] \notin {"open", "query", "read"}
        /\ openHandles = {}

\* With limit 0 the pushdown backend has yielded a feature.
C24_ZeroYieldsOnDuck == qLimit = <<0>> /\ useDuckDB = <<TRUE>> /\ Len(yielded) = 1 /\ rPc = "done"

\* With limit 0 the full-stream backend has opened every one of two candidate
\* files and ended without a feature.
C24_ZeroOpensOnStream ==
    /\ qLimit = <<0>>
    /\ useDuckDB = <<FALSE>>
    /\ rPc = "done"
    /\ yielded = <<>>
    /\ Len(filePaths) >= 2
    /\ \A k \in 1..Len(filePaths) : Entered(k)

\* With limit 0 no call yields more than one feature.
ZeroYieldsAtMostOne == qLimit = <<0>> => Len(yielded) <= 1

\* ------------------------------------------------------------------------
\* More claims about the GERS lookup (specification SpecGers)
\* ------------------------------------------------------------------------

\* The places in the feature file of the rows stored under the id looked for.
MatchPlaces == {p \in 1..Len(gFeatRows) : toLowerCase(gFeatRows[p].id) = toLowerCase(gId)}

\* The feature file has a row for the id, and the first one has a geometry
\* that is missing or is not WKB.
MatchHasBadGeometry ==
    /\ MatchPlaces # {}
    /\ gFeatRows[CHOOSE p \in MatchPlaces : \A q \in MatchPlaces : p <= q].geometry
          # "wkbPoint12"

\* The call went as far as the feature file.
ReachedFeatureFile == \E i \in 1..Len(gNet) : gNet[i][1] = "open"

\* C15: when getFeatureByGersId reaches a feature file whose row for the id
\* has a missing or undecodable geometry, it never returns (neither null nor
\* a Feature): it ends with an error, which is about the geometry unless the
\* read of the file failed first.
C15_BadGeometryIsError ==
    (gFn = "getFeatureByGersId" /\ MatchHasBadGeometry /\ ReachedFeatureFile) =>
        /\ gPc # "resolved"
        /\ gResult = <<>>
        /\ gPc = "rejected" =>
              gError \in {<<ErrNoGeometry>>, <<ErrParseGeometry>>}
                            \cup {<<ErrFeature(cause)>> : cause \in ReadCauses}
        /\ (gPc = "rejected" /\ gError = <<ErrNoGeometry>>) =>
              \E p \in MatchPlaces : gFeatRows[p].geometry = Null
        /\ (gPc = "rejected" /\ gError = <<ErrParseGeometry>>) =>
              \E p \in MatchPlaces : gFeatRows[p].geometry = "garbage"

\* C15 witness: the registry led to the feature file, the row of the id was
\* read, its geometry is not WKB, and the call failed for that reason.
C15_Witness ==
    /\ gFn = "getFeatureByGersId"
    /\ gOpt = <<>>
    /\ MatchHasBadGeometry
    /\ \E i \in 1..Len(gNet) : gNet[i] = <<"read">>
    /\ gPc = "rejected"
    /\ gError = <<ErrParseGeometry>>

\* The manifest of the remote catalog (empty when it has no registry).
RemoteManifest ==
    IF gRemoteCatalog.registry = <<>> THEN <<>> ELSE gRemoteCatalog.registry[1].manifest

\* The id is well formed, no registry result was passed in, and the catalog
\* has a manifest with entries.
PlainLookup == isValidGersId(gId) /\ gOpt = <<>> /\ Len(RemoteManifest) > 0

\* (a) the lowercased id is greater than every max key of the manifest.
BeyondManifest ==
    \A i \in 1..Len(RemoteManifest) : StrLt(RemoteManifest[i][2], toLowerCase(gId))

\* The places in the registry file of the rows stored under the id.
RegPlaces == {p \in 1..Len(gRegRows) : toLowerCase(gRegRows[p].id) = toLowerCase(gId)}

\* (b) the registry file has no row for the id.
NoRegistryRow == ~BeyondManifest /\ RegPlaces = {}

\* (c) the first row for the id has a null path.
NullRegistryPath ==
    /\ ~BeyondManifest
    /\ RegPlaces # {}
    /\ gRegRows[CHOOSE p \in RegPlaces : \A q \in RegPlaces : p <= q].path = <<>>

\* C16: for a well-formed id, when the id is beyond the manifest, the
\* registry file has no row for it, or the row's path is null, the lookup
\* never reads a feature file and never returns anything but null; it is
\* rejected only when the catalog or the registry file could not be read; and
\* when the id is beyond the manifest no registry file is read either.
C16_NullWhenAbsent ==
    (PlainLookup /\ (BeyondManifest \/ NoRegistryRow \/ NullRegistryPath)) =>
        /\ gPc \in {"idle", "catalog", "registry", "resolved", "rejected"}
        /\ gResult = <<>>
        /\ gOpenHandles = 0
        /\ \A i \in 1..Len(gNet) : gNet[i][1] \in {"catalog", "registry"}
        /\ BeyondManifest =>
              /\ gPc # "registry"
              /\ \A i \in 1..Len(gNet) : gNet[i][1] # "registry"
        /\ gPc = "rejected" =>
              gError \in {<<ErrCatalog(cause)>> : cause \in CatalogCauses}
                           \cup (IF BeyondManifest
                                 THEN {}
                                 ELSE {<<ErrRegistry(cause)>> : cause \in ReadCauses})

\* C16 witness: getFeatureByGersId fetched the catalog and read the registry
\* file, the row of the id has a null path, and the call returned null.
C16_Witness ==
    /\ gFn = "getFeatureByGersId"
    /\ PlainLookup
    /\ NullRegistryPath
    /\ \E i \in 1..Len(gNet) : gNet[i][1] = "registry"
    /\ gPc = "resolved"
    /\ gResult = <<>>

\* The same end for an id beyond the manifest, and for a registry file
\* without a row for the id.
C16_BeyondReached == PlainLookup /\ BeyondManifest /\ gPc = "resolved" /\ gNet = <<<<"catalog">>>>
C16_NoRowReached == PlainLookup /\ NoRegistryRow /\ gPc = "resolved" /\ Len(gNet) = 2

\* The hexadecimal letters: capital and small form.
LetterPairs ==
    {<<"A", "a">>, <<"B", "b">>, <<"C", "c">>, <<"D", "d">>, <<"E", "e">>, <<"F", "f">>}

\* Two characters are the same up to letter case.
SameChar(c, d) == c = d \/ <<c, d>> \in LetterPairs \/ <<d, c>> \in LetterPairs

\* Two ids differ at most in letter case.
SameId(a, b) == Len(a) = Len(b) /\ \A i \in 1..Len(a) : SameChar(a[i], b[i])

\* The spelling of the id looked for that has no capital letter.
LowerTwin ==
    [i \in 1..Len(gId) |->
        IF \E pair \in LetterPairs : pair[1] = gId[i]
        THEN (CHOOSE pair \in LetterPairs : pair[1] = gId[i])[2]
        ELSE gId[i]]

\* The manifest entries whose max key is not below the small-letter spelling.
ShardPlaces == {i \in 1..Len(RemoteManifest) : ~StrLt(RemoteManifest[i][2], LowerTwin)}

\* The rows of the registry file, and of the feature file, whose id is the
\* id looked for up to letter case.
RegTwins == {p \in 1..Len(gRegRows) : SameId(gRegRows[p].id, gId)}
FeatTwins == {p \in 1..Len(gFeatRows) : SameId(gFeatRows[p].id, gId)}

\* What queryGersRegistry returns for the id whatever its spelling: the
\* record of the first registry row with the id up to letter case.
RegistryAnswer ==
    IF ShardPlaces = {} \/ RegTwins = {}
    THEN <<>>
    ELSE RegistryResultOf(gRegRows[CHOOSE p \in RegTwins : \A q \in RegTwins : p <= q],
                          gRemoteCatalog.latest)

\* C19: lookups do not depend on the letter case of the id. The registry
\* file requested is the first of the manifest whose max key is not below
\* the small-letter spelling of the id; queryGersRegistry returns the record
\* of the first registry row with the id up to letter case (null if none);
\* a Feature returned by getFeatureByGersId has the small-letter spelling as
\* its id and comes from the first feature row with the id up to letter
\* case, and null is returned after reading the feature file only when there
\* is no such row.
C19_CaseInsensitive ==
    isValidGersId(gId) =>
        /\ \A i \in 1..Len(gNet) :
              gNet[i][1] = "registry" =>
                  /\ ShardPlaces # {}
                  /\ gNet[i][4] =
                        RemoteManifest[CHOOSE s \in ShardPlaces :
                                          \A t \in ShardPlaces : s <= t][1]
        /\ (gFn = "queryGersRegistry" /\ gPc = "resolved") => gResult = RegistryAnswer
        /\ (gFn = "getFeatureByGersId" /\ gPc = "resolved" /\ gResult # <<>>) =>
              /\ gResult[1].id = LowerTwin
              /\ FeatTwins # {}
              /\ gResult[1].properties.id =
                    gFeatRows[CHOOSE p \in FeatTwins : \A q \in FeatTwins : p <= q].id
              /\ gOpt = <<>> => RegistryAnswer # <<>>
        /\ (gFn = "getFeatureByGersId" /\ gPc = "resolved" /\ gResult = <<>>) =>
              IF gOpt = <<>> THEN RegistryAnswer = <<>> \/ FeatTwins = {} ELSE FeatTwins = {}

\* C19 witness: getFeatureByGersId was called with an id that has capital
\* letters, the feature row stores the id in another spelling, and the
\* Feature was returned with the small-letter id.
C19_Witness ==
    /\ gFn = "getFeatureByGersId"
    /\ gOpt = <<>>
    /\ gId # LowerTwin
    /\ gPc = "resolved"
    /\ gResult # <<>>
    /\ gResult[1].id = LowerTwin
    /\ gResult[1].properties.id # gId
    /\ gResult[1].properties.id # LowerTwin
    /\ \E i \in 1..Len(gNet) : gNet[i][1] = "registry"

\* ------------------------------------------------------------------------
\* Claims about readByBbox and the GERS lookup together (specification
\* SpecAll)
\* ------------------------------------------------------------------------

\* C17: a failure never looks like "nothing found". A readByBbox sequence
\* ends normally only with no error, with the candidate list the index
\* defines, with every candidate file entered unless the limit was reached,
\* and (without a limit) with every decodable row inside the query yielded.
\* A lookup returns null only when the data say so: the id is beyond the
\* manifest, the registry has no row or a null path for it, or the feature
\* file has no row for it. A failed call carries its error and no result.
C17_FailureIsError ==
    /\ rPc = "done" =>
          /\ rError = <<>>
          /\ Len(filePaths) = Cardinality({i \in 1..Len(stacRows) :
                                              Matches(stacRows[i]) /\ HasHref(stacRows[i])})
          /\ \A k \in 1..Len(filePaths) : Entered(k) \/ LimitReached(qLimit, count)
          /\ qLimit = <<>> =>
                \A p \in 1..Len(CandidateRowsFrom(1)) :
                    (Decodable(CandidateRowsFrom(1)[p]) /\ InQuery(CandidateRowsFrom(1)[p]))
                       => YieldedRow(CandidateRowsFrom(1)[p])
    /\ rPc = "failed" => rError # <<>>
    /\ (gPc = "resolved" /\ gResult = <<>>) =>
          /\ gError = <<>>
          /\ IF gFn = "queryGersRegistry"
             THEN BeyondManifest \/ NoRegistryRow \/ NullRegistryPath
             ELSE IF gOpt = <<>>
             THEN BeyondManifest \/ NoRegistryRow \/ NullRegistryPath \/ MatchPlaces = {}
             ELSE MatchPlaces = {}
    /\ gPc = "rejected" => (gError # <<>> /\ gResult = <<>>)

\* C17 witness: the read of the spatial index failed and the sequence ended
\* with that error; the read of the registry file failed and the lookup was
\* rejected with that error.
C17_Witness ==
    /\ rPc = "failed"
    /\ rError = <<ErrIndex>>
    /\ yielded = <<>>
    /\ gPc = "rejected"
    /\ gError = <<ErrRegistry("fetch failed")>>
    /\ gResult = <<>>

\* The columns of a row that are neither geometry nor bbox.
OtherColumns(row) == DOMAIN row \ {"geometry", "bbox"}

\* The properties hold exactly the columns of the row other than geometry
\* and bbox, with the row's values.
PropertiesOf(feature, row) ==
    /\ DOMAIN feature.properties = OtherColumns(row)
    /\ \A key \in OtherColumns(row) : feature.properties[key] = row[key]

\* The same for every feature readByBbox has yielded, on either backend.
YieldedPropertiesExact ==
    \A i \in 1..Len(yielded) :
        \A p \in PlacesOf(yielded[i]) : PropertiesOf(yielded[i], CandidateRowsFrom(1)[p])

\* C20 as claimed: the properties of every Feature produced by readByBbox and
\* by getFeatureByGersId hold every column of the source row except geometry
\* and bbox, and no key "geometry" or "bbox".
C20_PropertiesExact ==
    /\ YieldedPropertiesExact
    /\ (gFn = "getFeatureByGersId" /\ gPc = "resolved" /\ gResult # <<>>) =>
          /\ "geometry" \notin DOMAIN gResult[1].properties
          /\ "bbox" \notin DOMAIN gResult[1].properties
          /\ PropertiesOf(gResult[1],
                          gFeatRows[CHOOSE p \in FeatTwins : \A q \in FeatTwins : p <= q])

\* ------------------------------------------------------------------------
\* Claims about the catalog cache (specification SpecStac)
\* ------------------------------------------------------------------------

\* Call i starts in this step.
Starts(i) == stacCalls[i].pc = "idle" /\ stacCalls'[i].pc # "idle"

\* The value a call of kind fn hands back for the catalog: the catalog, its
\* latest release, or its releases (latest first) with the latest release.
ServedFrom(fn, catalog, res) ==
    CASE fn = "getStacCatalog" -> res = <<catalog>>
      [] fn = "getLatestRelease" -> res = <<catalog.latest[1]>>
      [] fn = "getAvailableReleases" ->
            /\ res[1][2] = catalog.latest[1]
            /\ \A k \in 1..Len(catalog.links[1]) :
                  (catalog.links[1][k].rel = "child" /\ Len(catalog.links[1][k].href) = 3)
                     => \E n \in 1..Len(res[1][1]) : res[1][1][n] = catalog.links[1][k].href[2]
            /\ \A n \in 1..(Len(res[1][1]) - 1) : ~StrLt(res[1][1][n], res[1][1][n + 1])

C25_RefetchReached ==
    /\ cachedCatalog = <<>>
    /\ stacCalls[1].pc = "returned"
    /\ stacCalls[2].pc = "fetching"
    /\ ~stacCalls[2].force

\* C26: a failed catalog fetch leaves the cache unchanged. In every step in
\* which a call ends with an error (network error, status not OK, invalid
\* structure, invalid JSON, timeout; with or without forceRefresh) the cache
\* keeps its value; and the cache never holds a body that is not an object,
\* has no latest release or has no links array.
C26_FailureKeepsCache ==
    [][ /\ \A i \in 1..MaxStacCalls :
              (stacCalls'[i].pc = "thrown" /\ stacCalls[i].pc # "thrown") =>
                  /\ cachedCatalog' = cachedCatalog
                  /\ stacCalls'[i].err # <<>>
                  /\ stacCalls'[i].res = <<>>
        /\ cachedCatalog' # <<>> =>
              /\ cachedCatalog'[1].isObject
              /\ cachedCatalog'[1].latest \notin {<<>>, << <<>> >>}
              /\ cachedCatalog'[1].links # <<>>
      ]_vars

\* C26 witness: with a catalog cached, getStacCatalog(true) fetched a body of
\* invalid structure and failed; the catalog is still cached.
C26_Witness ==
    /\ cachedCatalog # <<>>
    /\ stacCalls[1].pc = "idle"
    /\ stacCalls[2].pc = "thrown"
    /\ stacCalls[2].fn = "getStacCatalog"
    /\ stacCalls[2].force
    /\ stacCalls[2].err = <<ErrStructure>>

\* ------------------------------------------------------------------------
\* Claims about the pushdown module (specification SpecDuck)
\* ------------------------------------------------------------------------

\* C27 as claimed: in every reachable state of the pushdown module, also
\* after closeDuckDB, duckdbAvailable = true implies a non-null
\* duckdbConnection; so a caller to whom isDuckDBAvailable resolved true from
\* the remembered value finds a connection.
C27_AvailableHasConnection ==
    duckdbAvailable = <<TRUE>> => duckdbConnection # 0

\* closeDuckDB has finished, nothing is open, and a caller that was answered
\* from the remembered value has picked the pushdown backend.
C27_ClosedStillAvailable ==
    /\ closePc = "idle"
    /\ duckdb = 0
    /\ duckdbConnection = 0
    /\ duckdbAvailable = <<TRUE>>
    /\ \E c \in 1..MaxCallers :
          /\ callers[c].st = "resolved"
          /\ callers[c].on = 0
          /\ callers[c].backend = "duckdb"

\* C29 as claimed: whenever initializeDuckDB has ended with
\* duckdbAvailable = false, every worker, database and connection the probe
\* created has been terminated or closed, and duckdb and duckdbConnection are
\* null.
C29_FailedProbeLeavesNothing ==
    duckdbAvailable = <<FALSE>> =>
        /\ duckdb = 0
        /\ duckdbConnection = 0
        /\ \A p \in 1..Len(probes) :
              probes[p].result = <<FALSE>> =>
                  /\ ~probes[p].worker
                  /\ ~probes[p].db
                  /\ ~probes[p].conn

\* A probe that failed after db.connect() has ended with false, and its
\* worker, database and connection are all still open while the module
\* holds no reference to them.
C29_LeakAfterConnect ==
    /\ duckdbAvailable = <<FALSE>>
    /\ duckdb = 0
    /\ duckdbConnection = 0
    /\ \E p \in 1..Len(probes) :
          /\ probes[p].pc = "done"
          /\ probes[p].result = <<FALSE>>
          /\ probes[p].worker
          /\ probes[p].db
          /\ probes[p].conn

\* What does hold: a failed probe leaves the module variables null, and a
\* probe that failed before it created the worker leaves nothing open.
FailedProbeHoldsNoReference ==
    duckdbAvailable = <<FALSE>> => duckdb = 0 /\ duckdbConnection = 0

\* ------------------------------------------------------------------------
\* Claims about getDb and closeDb (specification SpecDb)
\* ------------------------------------------------------------------------

\* The activations of doInitDuckDB, in the state is, that have not failed.
LiveInits(is) == {k \in 1..Len(is) : is[k].outcome # "rejected"}

\* Connection g, in the state is, is open, the whole set-up sequence has run
\* on it, and the activation that created it has returned.
FullyInitialized(g, is) ==
    /\ g # 0
    /\ is[g].conn
    /\ is[g].ext = Len(SetupStatements)
    /\ is[g].outcome = "resolved"

\* Caller c is handed its connection in this step.
Receives(c) == dbCallers[c].st = "waiting" /\ dbCallers'[c].st = "holding"

\* C28 as claimed: as long as closeDb is not called, under any interleaving
\* of concurrent callers of getDb at most one initialization has created a
\* database and a connection that were not cleaned up by its failure, and
\* every connection handed to a caller is open and fully initialized: no
\* caller receives it while doInitDuckDB is still running or after
\* doInitDuckDB failed and closed it.
C28_OneReadyConnection ==
    [][ dbClose'.calls = 0 =>
          /\ Cardinality(LiveInits(inits')) <= 1
          /\ \A c \in 1..MaxDbCallers :
                Receives(c) => FullyInitialized(dbCallers'[c].got, inits') ]_vars

\* A caller holds the connection while the activation of doInitDuckDB that
\* created it is still running its set-up statements, closeDb never called.
C28_HalfInitializedHandedOut ==
    /\ dbClose.calls = 0
    /\ \E c \in 1..MaxDbCallers :
          /\ dbCallers[c].st = "holding"
          /\ dbCallers[c].got # 0
          /\ inits[dbCallers[c].got].outcome = "pending"
          /\ inits[dbCallers[c].got].pc = "query"
          /\ inits[dbCallers[c].got].ext < Len(SetupStatements)

\* A caller holds a connection that the catch block of doInitDuckDB has
\* closed, closeDb never called.
C28_ClosedHandedOut ==
    /\ dbClose.calls = 0
    /\ \E c \in 1..MaxDbCallers :
          /\ dbCallers[c].st = "holding"
          /\ dbCallers[c].got # 0
          /\ inits[dbCallers[c].got].outcome = "rejected"
          /\ ~inits[dbCallers[c].got].conn

\* What does hold without closeDb: one initialization at a time, and a
\* caller that awaited the promise of the initialization is handed a fully
\* initialized connection or the error.
OneInitAtATime ==
    [][ dbClose'.calls = 0 =>
          /\ Cardinality(LiveInits(inits')) <= 1
          /\ \A c \in 1..MaxDbCallers :
                Receives(c) /\ dbCallers[c].on # 0 =>
                    FullyInitialized(dbCallers'[c].got, inits') ]_vars

\* closeDb is called in this step, finds nothing open and returns at once.
ClosesNothing ==
    /\ dbClose.pc = "idle"
    /\ dbClose'.pc = "idle"
    /\ dbClose'.calls = dbClose.calls + 1

\* closeDb finishes in this step after its last awaited cleanup call.
ClosesAfterCleanup == dbClose.pc # "idle" /\ dbClose'.pc = "idle"

\* The shared handle is reset in the next state.
HandleReset == conn' = 0 /\ db' = 0 /\ dbInitPromise' = 0

\* The call of closeDb that finishes in this step has issued the cleanup call
\* for each of conn and db that was set when it began, and it returns only
\* if none of them has failed.
BothAttempted ==
    /\ dbClose.had \subseteq dbClose.tried
    /\ dbClose'.result \in {"ok", "threw"}
    /\ dbClose'.result = "ok" => dbClose.errors = 0

\* closeDb with nothing open changes nothing and returns.
NoOpSucceeds ==
    /\ conn = 0 /\ db = 0
    /\ dbClose'.result = "ok"
    /\ UNCHANGED <<inits, dbCallers>>

\* A call of getDb made while conn and initPromise are null starts an
\* initialization and awaits it.
LazilyReinitializes ==
    \A c \in 1..MaxDbCallers :
        dbCallers[c].st = "idle" /\ dbCallers'[c].st = "waiting"
          /\ conn = 0 /\ dbInitPromise = 0 =>
            /\ Len(inits') = Len(inits) + 1
            /\ dbInitPromise' = Len(inits')
            /\ dbCallers'[c].on = Len(inits')
            /\ inits'[Len(inits')] = NewInit

C30_FreshConnectionReached ==
    /\ dbClose.pc = "idle"
    /\ dbClose.result = "threw"
    /\ \E c \in 1..MaxDbCallers :
          /\ dbCallers[c].st = "holding"
          /\ dbCallers[c].got = 2
          /\ conn = 2
          /\ FullyInitialized(2, inits)

\* A second call of closeDb, with nothing open, has returned.
C30_SecondCloseReached ==
    /\ dbClose.pc = "idle"
    /\ dbClose.calls = 2
    /\ dbClose.result = "ok"
    /\ inits # <<>>
    /\ conn = 0 /\ db = 0 /\ dbInitPromise = 0

====
